---------------------------- MODULE Spec2Model ----------------------------
(***************************************************************************)
(* ArcadeRS: the game loop driver (phi::spawn), the input snapshot        *)
(* (phi::events), the MainMenu view and the Game view with its entity      *)
(* update / collision pipeline.                                            *)
(*                                                                         *)
(* Units.  The program computes in f64.  The model computes in fixed       *)
(* point: lengths in 1/1000 pixel (mpx), time in milliseconds, animation   *)
(* time in microseconds, velocities so that velocity * time is mpx.        *)
(* Every product is followed by the floor division the unit needs.         *)
(*                                                                         *)
(* Rounding.  In the specifications of the views and of the driver every   *)
(* value is held exactly (probe.mant = 0).  The specifications of the      *)
(* functions of Rectangle (SpecRect) and of AnimatedSprite (SpecSprite,    *)
(* which also follows the pumps of one Events record)                      *)
(* run the same operators in a binary floating point format of probe.mant  *)
(* significant bits, rounding to nearest, ties to even, so that the        *)
(* rounding f64 does at 53 bits happens within the bounds of the model.    *)
(* SpecBullet follows single bullets, ships and scrolling backgrounds in    *)
(* exact arithmetic.                                                       *)
(***************************************************************************)
EXTENDS Integers, Sequences, FiniteSets, TLC

VARIABLES
    pc,            \* position of the driver in its loop
    driver,        \* which revision of spawn() runs: "v11" or "v13"
    timer,         \* value of timer.ticks(), milliseconds
    now,           \* spawn: let now
    before,        \* spawn: let mut before
    last_second,   \* spawn: let mut last_second
    fps,           \* spawn: let mut fps
    dt,            \* spawn: let dt
    events,        \* Phi.events : Events (held keys and ImmediateEvents)
    current_view,  \* spawn: let mut current_view, [kind, id]
    selected,      \* MainMenuView.selected
    player,        \* GameView.player
    bullets,       \* GameView.bullets
    asteroids,     \* GameView.asteroids
    explosions,    \* GameView.explosions
    bg,            \* GameView.bg / MainMenuView.bg
    last,          \* history: the last view update (inputs, intermediate collections, result)
    calls,         \* history: the calls the driver made in the current loop iteration
    hist,          \* history: counters over the whole run
    probe          \* function specifications: the arguments and results of the
                   \* function applied, and the precision of the arithmetic

vars == << pc, driver, timer, now, before, last_second, fps, dt, events,
           current_view, selected, player, bullets, asteroids, explosions,
           bg, last, calls, hist, probe >>

driverVars == << driver, timer, now, before, last_second, fps, dt >>
gameVars   == << player, bullets, asteroids, explosions, bg >>

---------------------------------------------------------------------------
(* Bounds of the model *)

\* Output size of the renderer (the window is resizable), in pixels.
ScreenW == 160
ScreenH == 180
\* Width of a background image, in pixels (the assets are not part of the sources).
BgWidth == 300
\* Frames a run of the Game view specification goes through.
MaxFrames == 4
\* Entities a collection holds at most in the model.
MaxBullets == 4
MaxAsteroids == 2

---------------------------------------------------------------------------
(* Program constants *)

PLAYER_SPEED   == 180
PLAYER_W       == 43
PLAYER_H       == 39
ASTEROIDS_TOTAL == 143
ASTEROID_SIDE  == 96
EXPLOSIONS_TOTAL == 17
EXPLOSION_SIDE == 96
EXPLOSION_FPS  == 16
BULLET_SPEED   == 240
BULLET_W       == 8
BULLET_H       == 4

\* one pixel in model units (mpx)
PX == 10 * 100

OutputW == ScreenW * PX
OutputH == ScreenH * PX

---------------------------------------------------------------------------
(* f64 arithmetic *)

RECURSIVE BitLen(_)
\* number of binary digits of the magnitude of an integer
BitLen(n) == IF n = 0 THEN 0 ELSE 1 + BitLen((IF n < 0 THEN 0 - n ELSE n) \div 2)

\* the integer nearest to n / d, ties to even (d > 0)
RoundDiv(n, d) ==
    LET k == n \div d
        r == n % d
    IN  IF 2 * r > d \/ (2 * r = d /\ k % 2 = 1) THEN k + 1 ELSE k

\* 2^e for e > 0, and 1 otherwise
Pow2(e) == IF e > 0 THEN 2 ^ e ELSE 1

\* n rounded to p significant bits, to nearest, ties to even; p = 0: exact
RoundTo(p, n) ==
    IF p = 0 THEN n ELSE RoundDiv(n, Pow2(BitLen(n) - p)) * Pow2(BitLen(n) - p)

\* a + b, a - b and a * b in f64
f64_add(a, b) == RoundTo(probe.mant, a + b)
f64_sub(a, b) == RoundTo(probe.mant, a - b)
f64_mul(a, b) == RoundTo(probe.mant, a * b)

\* the quotient a / b, a >= 0 and b > 0, rounded to the nearest value that
\* has f binary digits after the point (f < 0: that is a multiple of 2^-f),
\* then truncated
DivTrunc(f, a, b) ==
    IF f > 0 THEN RoundDiv(a * Pow2(f), b) \div Pow2(f)
    ELSE RoundDiv(a, b * Pow2(0 - f)) * Pow2(0 - f)

\* (a / b) as usize, for a >= 0 and b > 0: the quotient is rounded to the
\* significant bits of the format, then truncated
f64_div_trunc(a, b) ==
    IF probe.mant = 0 THEN a \div b
    ELSE DivTrunc(probe.mant - BitLen(a \div b), a, b)

---------------------------------------------------------------------------
(* phi::data::Rectangle *)

Rect(x, y, w, h) == [x |-> x, y |-> y, w |-> w, h |-> h]

with_size(w, h) == Rect(0, 0, w, h)

\* w / 2.0 of a length in mpx; all widths of the program are whole pixels
center_at(r, c) == [r EXCEPT !.x = c[1] - (r.w \div 2), !.y = c[2] - (r.h \div 2)]

center(r) == << r.x + (r.w \div 2), r.y + (r.h \div 2) >>

\* a containment test whose right bound is strict
contains_strict(self, rect) ==
    LET xmin == rect.x
        xmax == f64_add(xmin, rect.w)
        ymin == rect.y
        ymax == f64_add(ymin, rect.h)
    IN  /\ xmin >= self.x /\ xmin <= f64_add(self.x, self.w)
        /\ xmax >= self.x /\ xmax < f64_add(self.x, self.w)
        /\ ymin >= self.y /\ ymin <= f64_add(self.y, self.h)
        /\ ymax >= self.y /\ ymax <= f64_add(self.y, self.h)

contains(self, rect) ==
    LET xmin == rect.x
        xmax == f64_add(xmin, rect.w)
        ymin == rect.y
        ymax == f64_add(ymin, rect.h)
    IN  /\ xmin >= self.x /\ xmin <= f64_add(self.x, self.w)
        /\ xmax >= self.x /\ xmax <= f64_add(self.x, self.w)
        /\ ymin >= self.y /\ ymin <= f64_add(self.y, self.h)
        /\ ymax >= self.y /\ ymax <= f64_add(self.y, self.h)

\* an overlap test that counts shared edges and corners
overlaps_closed(self, other) ==
    /\ self.x <= f64_add(other.x, other.w)
    /\ f64_add(self.x, self.w) >= other.x
    /\ self.y <= f64_add(other.y, other.h)
    /\ f64_add(self.y, self.h) >= other.y

\* an overlap test that counts a shared left edge
overlaps_leftClosed(self, other) ==
    /\ self.x <= f64_add(other.x, other.w)
    /\ f64_add(self.x, self.w) > other.x
    /\ self.y < f64_add(other.y, other.h)
    /\ f64_add(self.y, self.h) > other.y

overlaps(self, other) ==
    /\ self.x < f64_add(other.x, other.w)
    /\ f64_add(self.x, self.w) > other.x
    /\ self.y < f64_add(other.y, other.h)
    /\ f64_add(self.y, self.h) > other.y

\* Option<T>: None is the empty sequence, Some(v) the sequence of v alone
OptNone == << >>
Some(v) == << v >>
IsSome(o) == o # << >>
Unwrap(o) == o[1]

\* a move_inside that brings back from the left and from above only
move_inside_topLeft(self, parent) ==
    IF self.w > parent.w \/ self.h > parent.h
    THEN OptNone
    ELSE Some(Rect(IF self.x < parent.x THEN parent.x ELSE self.x,
                   IF self.y < parent.y THEN parent.y ELSE self.y,
                   self.w, self.h))

\* a move_inside that moves whatever the sizes are
move_inside_anySize(self, parent) ==
    Some(Rect(IF self.x < parent.x THEN parent.x
              ELSE IF f64_add(self.x, self.w) >= f64_add(parent.x, parent.w)
                   THEN f64_sub(f64_add(parent.x, parent.w), self.w)
                   ELSE self.x,
              IF self.y < parent.y THEN parent.y
              ELSE IF f64_add(self.y, self.h) >= f64_add(parent.y, parent.h)
                   THEN f64_sub(f64_add(parent.y, parent.h), self.h)
                   ELSE self.y,
              self.w, self.h))

move_inside(self, parent) ==
    IF self.w > parent.w \/ self.h > parent.h
    THEN OptNone
    ELSE Some(Rect(IF self.x < parent.x THEN parent.x
                   ELSE IF f64_add(self.x, self.w) >= f64_add(parent.x, parent.w)
                        THEN f64_sub(f64_add(parent.x, parent.w), self.w)
                        ELSE self.x,
                   IF self.y < parent.y THEN parent.y
                   ELSE IF f64_add(self.y, self.h) >= f64_add(parent.y, parent.h)
                        THEN f64_sub(f64_add(parent.y, parent.h), self.h)
                        ELSE self.y,
                   self.w, self.h))

\* MaybeAlive::as_option
as_option(m) == IF m.alive THEN Some(m.value) ELSE OptNone

---------------------------------------------------------------------------
(* phi::events : the input snapshot *)

Keys == { "key_escape", "key_up", "key_down", "key_left", "key_right",
          "key_space", "key_enter", "key_1", "key_2", "key_3" }

\* Option<bool> of an edge
None      == "None"
SomeTrue  == "Some(true)"
SomeFalse == "Some(false)"

ImmediateEvents_new ==
    [ resize |-> None, key |-> [k \in Keys |-> None], quit |-> FALSE ]

Events_new ==
    [ now |-> ImmediateEvents_new, held |-> [k \in Keys |-> FALSE] ]

KeyDown(k) == [type |-> "KeyDown", keycode |-> k]
KeyUp(k)   == [type |-> "KeyUp", keycode |-> k]
QuitEv     == [type |-> "Quit"]
ResizedEv  == [type |-> "Resized"]

\* a pump in which every key-down is a press, held or not
PollEvent_repeats(self, event) ==
    CASE event.type = "Resized" ->
            [self EXCEPT !.now.resize = << ScreenW, ScreenH >>]
      [] event.type = "KeyDown" ->
            [self EXCEPT !.now.key[event.keycode] = SomeTrue,
                         !.held[event.keycode] = TRUE]
      [] event.type = "KeyUp" ->
            [self EXCEPT !.now.key[event.keycode] = SomeFalse,
                         !.held[event.keycode] = FALSE]
      [] event.type = "Quit" ->
            [self EXCEPT !.now.quit = TRUE]
      [] OTHER -> self

\* a pump whose key-up sets the released edge and leaves the key held
PollEvent_upKeepsHeld(self, event) ==
    CASE event.type = "Resized" ->
            [self EXCEPT !.now.resize = << ScreenW, ScreenH >>]
      [] event.type = "KeyDown" ->
            [self EXCEPT
                !.now.key[event.keycode] =
                    IF ~self.held[event.keycode] THEN SomeTrue ELSE @,
                !.held[event.keycode] = TRUE]
      [] event.type = "KeyUp" ->
            [self EXCEPT !.now.key[event.keycode] = SomeFalse]
      [] event.type = "Quit" ->
            [self EXCEPT !.now.quit = TRUE]
      [] OTHER -> self

\* one arm of the match in Events::pump
PollEvent(self, event) ==
    CASE event.type = "Resized" ->
            [self EXCEPT !.now.resize = << ScreenW, ScreenH >>]
      [] event.type = "KeyDown" ->
            [self EXCEPT
                !.now.key[event.keycode] =
                    IF ~self.held[event.keycode] THEN SomeTrue ELSE @,
                !.held[event.keycode] = TRUE]
      [] event.type = "KeyUp" ->
            [self EXCEPT
                !.now.key[event.keycode] = SomeFalse,
                !.held[event.keycode] = FALSE]
      [] event.type = "Quit" ->
            [self EXCEPT !.now.quit = TRUE]
      [] OTHER -> self

RECURSIVE PollAll(_, _)
PollAll(self, evs) ==
    IF evs = << >> THEN self
    ELSE PollAll(PollEvent(self, Head(evs)), Tail(evs))

\* Events::pump: reset the edges, then handle every pending event in order
Events_pump(self, evs) ==
    PollAll([self EXCEPT !.now = ImmediateEvents_new], evs)

---------------------------------------------------------------------------
(* phi::gfx::Sprite: tex names the shared texture, src is the region held *)

\* a region that is handed out without the containment check
Sprite_region_unchecked(self, rect) ==
    Some([ tex |-> self.tex,
           src |-> [rect EXCEPT !.x = f64_add(rect.x, self.src.x),
                                !.y = f64_add(rect.y, self.src.y)] ])

Sprite_region(self, rect) ==
    LET new_src == [rect EXCEPT !.x = f64_add(rect.x, self.src.x),
                                !.y = f64_add(rect.y, self.src.y)]
    IN  IF contains(self.src, new_src)
        THEN Some([tex |-> self.tex, src |-> new_src])
        ELSE OptNone

---------------------------------------------------------------------------
(* phi::gfx::AnimatedSprite; times in microseconds *)

\* 1.0 / fps, fps given in 1/1000 frame per second
FrameDelayOfFps(fps_milli) == RoundTo(probe.mant, (1000 * 1000 * 1000) \div fps_milli)

\* panic!(msg): the call does not return a sprite
Panicked(msg) == [panic |-> msg]
IsPanic(r) == "panic" \in DOMAIN r

AnimatedSprite_new(frames, frame_delay) ==
    [ frames |-> frames, frame_delay |-> frame_delay, current_time |-> 0 ]

\* a constructor without the check of fps
AnimatedSprite_with_fps_unchecked(frames, fps_milli) ==
    AnimatedSprite_new(frames, IF fps_milli = 0 THEN 0 ELSE FrameDelayOfFps(fps_milli))

AnimatedSprite_with_fps(frames, fps_milli) ==
    IF fps_milli = 0
    THEN Panicked("Passed 0 to AnimatedSprite::with_fps")
    ELSE AnimatedSprite_new(frames, FrameDelayOfFps(fps_milli))

set_frame_delay(sprite, frame_delay) == [sprite EXCEPT !.frame_delay = frame_delay]

set_fps(sprite, fps_milli) ==
    IF fps_milli = 0
    THEN Panicked("Passed 0 to AnimatedSprite::set_fps")
    ELSE set_frame_delay(sprite, FrameDelayOfFps(fps_milli))

add_time(sprite, dt_us) ==
    LET t == f64_add(sprite.current_time, dt_us)
    IN  [sprite EXCEPT !.current_time =
            IF t < 0 THEN f64_mul(sprite.frames - 1, sprite.frame_delay) ELSE t]

\* the frame Renderable::render selects
current_frame(sprite) ==
    f64_div_trunc(sprite.current_time, sprite.frame_delay) % sprite.frames

---------------------------------------------------------------------------
(* views::bullets *)

\* f64::sin of an angle in 1/1000 radian, result in 1/1000.  Bhaskara's
\* rational approximation (absolute error below 0.002) stands for the libm sine.
Pi == 3142
HalfSin(x) ==
    LET p == (x * (Pi - x)) \div 1000
    IN  (16000 * p) \div (49348 - 4 * p)
f64_sin(mrad) ==
    LET x == mrad % (2 * Pi)
    IN  IF x <= Pi THEN HalfSin(x) ELSE 0 - HalfSin(x - Pi)

RectBullet_rect(self) == self.rect

SineBullet_rect(self) ==
    LET dy == self.amplitude * f64_sin(self.angular_vel * self.total_time)
    IN  Rect(self.pos_x, self.origin_y + dy, BULLET_W * PX, BULLET_H * PX)

\* a * ((t/b)^3 - (t/b)^2), t/b kept in 1/1000
DivergentBullet_rect(self) ==
    LET u  == (self.total_time * 1000) \div self.b
        u2 == (u * u) \div 1000
        u3 == (u2 * u) \div 1000
        dy == self.a * (u3 - u2)
    IN  Rect(self.pos_x, self.origin_y + dy, BULLET_W * PX, BULLET_H * PX)

\* Bullet::rect, dispatched on the variant
Bullet_rect(self) ==
    CASE self.kind = "RectBullet"      -> RectBullet_rect(self)
      [] self.kind = "SineBullet"      -> SineBullet_rect(self)
      [] self.kind = "DivergentBullet" -> DivergentBullet_rect(self)

\* a bullet that is deleted as soon as it reaches the right border
RectBullet_advance_closed(self, w, dt_ms) ==
    LET moved == [self EXCEPT !.rect.x = @ + BULLET_SPEED * dt_ms]
    IN  IF moved.rect.x >= w THEN OptNone ELSE Some(moved)

\* the body of RectBullet::update, w being the width phi.output_size() returns
RectBullet_advance(self, w, dt_ms) ==
    LET moved == [self EXCEPT !.rect.x = @ + BULLET_SPEED * dt_ms]
    IN  IF moved.rect.x > w THEN OptNone ELSE Some(moved)

RectBullet_update(self, dt_ms) == RectBullet_advance(self, OutputW, dt_ms)

\* SineBullet::update, w being the width phi.output_size() returns
SineBullet_update(self, w, dt_ms) ==
    LET moved == [self EXCEPT !.total_time = @ + dt_ms,
                              !.pos_x = @ + BULLET_SPEED * dt_ms]
    IN  IF SineBullet_rect(moved).x > w THEN OptNone ELSE Some(moved)

\* a divergent bullet that is deleted at the right border only
DivergentBullet_update_rightOnly(self, w, h, dt_ms) ==
    LET moved == [self EXCEPT !.total_time = @ + dt_ms,
                              !.pos_x = @ + BULLET_SPEED * dt_ms]
    IN  IF DivergentBullet_rect(moved).x > w THEN OptNone ELSE Some(moved)

\* DivergentBullet::update, (w, h) being the size phi.output_size() returns
DivergentBullet_update(self, w, h, dt_ms) ==
    LET moved == [self EXCEPT !.total_time = @ + dt_ms,
                              !.pos_x = @ + BULLET_SPEED * dt_ms]
        rect  == DivergentBullet_rect(moved)
    IN  IF \/ rect.x > w \/ rect.x < 0
           \/ rect.y > h \/ rect.y < 0
        THEN OptNone ELSE Some(moved)

\* Bullet::update, dispatched on the variant
Bullet_update(self, dt_ms) ==
    CASE self.kind = "RectBullet"      -> RectBullet_update(self, dt_ms)
      [] self.kind = "SineBullet"      -> SineBullet_update(self, OutputW, dt_ms)
      [] self.kind = "DivergentBullet" -> DivergentBullet_update(self, OutputW, OutputH, dt_ms)

\* CannonType and the literals Player::update selects
CannonRect      == [type |-> "RectBullet"]
CannonSine      == [type |-> "SineBullet", amplitude |-> 10, angular_vel |-> 15]
CannonDivergent == [type |-> "DivergentBullet", a |-> 100, b |-> 1200]

\* a divergent cannon whose two bullets get the same sign of a
spawn_bullets_sameSign(cannon, cannons_x, cannon1_y, cannon2_y) ==
    CASE cannon.type = "RectBullet" ->
            << [kind |-> "RectBullet",
                rect |-> Rect(cannons_x, cannon1_y, BULLET_W * PX, BULLET_H * PX)],
               [kind |-> "RectBullet",
                rect |-> Rect(cannons_x, cannon2_y, BULLET_W * PX, BULLET_H * PX)] >>
      [] cannon.type = "SineBullet" ->
            << [kind |-> "SineBullet", pos_x |-> cannons_x, origin_y |-> cannon1_y,
                amplitude |-> cannon.amplitude, angular_vel |-> cannon.angular_vel,
                total_time |-> 0],
               [kind |-> "SineBullet", pos_x |-> cannons_x, origin_y |-> cannon2_y,
                amplitude |-> cannon.amplitude, angular_vel |-> cannon.angular_vel,
                total_time |-> 0] >>
      [] cannon.type = "DivergentBullet" ->
            << [kind |-> "DivergentBullet", pos_x |-> cannons_x, origin_y |-> cannon1_y,
                a |-> cannon.a, b |-> cannon.b, total_time |-> 0],
               [kind |-> "DivergentBullet", pos_x |-> cannons_x, origin_y |-> cannon2_y,
                a |-> cannon.a, b |-> cannon.b, total_time |-> 0] >>

spawn_bullets(cannon, cannons_x, cannon1_y, cannon2_y) ==
    CASE cannon.type = "RectBullet" ->
            << [kind |-> "RectBullet",
                rect |-> Rect(cannons_x, cannon1_y, BULLET_W * PX, BULLET_H * PX)],
               [kind |-> "RectBullet",
                rect |-> Rect(cannons_x, cannon2_y, BULLET_W * PX, BULLET_H * PX)] >>
      [] cannon.type = "SineBullet" ->
            << [kind |-> "SineBullet", pos_x |-> cannons_x, origin_y |-> cannon1_y,
                amplitude |-> cannon.amplitude, angular_vel |-> cannon.angular_vel,
                total_time |-> 0],
               [kind |-> "SineBullet", pos_x |-> cannons_x, origin_y |-> cannon2_y,
                amplitude |-> cannon.amplitude, angular_vel |-> cannon.angular_vel,
                total_time |-> 0] >>
      [] cannon.type = "DivergentBullet" ->
            << [kind |-> "DivergentBullet", pos_x |-> cannons_x, origin_y |-> cannon1_y,
                a |-> 0 - cannon.a, b |-> cannon.b, total_time |-> 0],
               [kind |-> "DivergentBullet", pos_x |-> cannons_x, origin_y |-> cannon2_y,
                a |-> cannon.a, b |-> cannon.b, total_time |-> 0] >>

---------------------------------------------------------------------------
(* views::game : Player *)

Player_new ==
    [ rect    |-> Rect(64 * PX, (OutputH - PLAYER_H * PX) \div 2, PLAYER_W * PX, PLAYER_H * PX),
      current |-> "MidNorm",
      cannon  |-> CannonRect ]

PlayerFrameOf(dx, dy) ==
    IF dx = 0 /\ dy < 0 THEN "UpNorm"
    ELSE IF dx > 0 /\ dy < 0 THEN "UpFast"
    ELSE IF dx < 0 /\ dy < 0 THEN "UpSlow"
    ELSE IF dx = 0 /\ dy = 0 THEN "MidNorm"
    ELSE IF dx > 0 /\ dy = 0 THEN "MidFast"
    ELSE IF dx < 0 /\ dy = 0 THEN "MidSlow"
    ELSE IF dx = 0 /\ dy > 0 THEN "DownNorm"
    ELSE IF dx > 0 /\ dy > 0 THEN "DownFast"
    ELSE "DownSlow"

\* the cannon after the key_1 / key_2 / key_3 edges, tested in that order
SelectCannon(cannon, ev) ==
    LET c1 == IF ev.now.key["key_1"] = SomeTrue THEN CannonRect ELSE cannon
        c2 == IF ev.now.key["key_2"] = SomeTrue THEN CannonSine ELSE c1
    IN  IF ev.now.key["key_3"] = SomeTrue THEN CannonDivergent ELSE c2

\* 70% of the output's width, all of its height; sizes in mpx
movable_region(out_w, out_h) == Rect(0, 0, (out_w * 70) \div 100, out_h)

\* Player::update with the output size phi.output_size() returns; None when
\* move_inside(..).unwrap() panics
Player_update_in(self, ev, elapsed_ms, out_w, out_h) ==
    LET diagonal == /\ ev.held["key_up"] # ev.held["key_down"]
                    /\ ev.held["key_left"] # ev.held["key_right"]
        \* 1/sqrt(2) taken as 0.7071
        moved == IF diagonal
                 THEN (PLAYER_SPEED * elapsed_ms * 7071) \div 10000
                 ELSE PLAYER_SPEED * elapsed_ms
        dx == IF ev.held["key_left"] = ev.held["key_right"] THEN 0
              ELSE IF ev.held["key_left"] THEN 0 - moved ELSE moved
        dy == IF ev.held["key_up"] = ev.held["key_down"] THEN 0
              ELSE IF ev.held["key_up"] THEN 0 - moved ELSE moved
        shifted == [self.rect EXCEPT !.x = @ + dx, !.y = @ + dy]
        inside  == move_inside(shifted, movable_region(out_w, out_h))
    IN  IF ~IsSome(inside) THEN OptNone
        ELSE Some([ rect    |-> Unwrap(inside),
                    current |-> PlayerFrameOf(dx, dy),
                    cannon  |-> SelectCannon(self.cannon, ev) ])

\* Player::update in a window of the model's output size
Player_update(self, ev, elapsed_ms) ==
    Player_update_in(self, ev, elapsed_ms, OutputW, OutputH)

\* a ship whose lower mount is at the bottom edge of the ship
Player_spawn_bullets_low(self) ==
    LET cannons_x == self.rect.x + 30 * PX
        cannon1_y == self.rect.y + 6 * PX
        cannon2_y == self.rect.y + PLAYER_H * PX
    IN  spawn_bullets(self.cannon, cannons_x, cannon1_y, cannon2_y)

Player_spawn_bullets(self) ==
    LET cannons_x == self.rect.x + 30 * PX
        cannon1_y == self.rect.y + 6 * PX
        cannon2_y == self.rect.y + PLAYER_H * PX - 10 * PX
    IN  spawn_bullets(self.cannon, cannons_x, cannon1_y, cannon2_y)

---------------------------------------------------------------------------
(* views::game : Asteroid, Explosion and their factories *)

\* Asteroid::factory: the shared strip at 1 frame per second
AsteroidFactory_sprite == AnimatedSprite_with_fps(ASTEROIDS_TOTAL, 1 * 1000)

\* AsteroidFactory::random; r_fps, r_y, r_vel are the three rand::random::<f64>()
\* draws, in 1/1000
AsteroidFactory_random(r_fps, r_y, r_vel) ==
    [ sprite |-> set_fps(AsteroidFactory_sprite, r_fps * 20 + 10 * 1000),
      rect   |-> Rect(OutputW,
                      (r_y * (OutputH - ASTEROID_SIDE * PX)) \div 1000,
                      ASTEROID_SIDE * PX, ASTEROID_SIDE * PX),
      vel    |-> r_vel * 100 + 50 * 1000 ]

\* an asteroid that goes on to the left of the screen for ever
Asteroid_update_neverLeaves(self, dt_ms) ==
    Some([self EXCEPT !.rect.x = @ - ((dt_ms * self.vel) \div 1000),
                      !.sprite = add_time(@, dt_ms * 1000)])

Asteroid_update(self, dt_ms) ==
    LET moved == [self EXCEPT !.rect.x = @ - ((dt_ms * self.vel) \div 1000),
                              !.sprite = add_time(@, dt_ms * 1000)]
    IN  IF moved.rect.x <= 0 - ASTEROID_SIDE * PX THEN OptNone ELSE Some(moved)

\* Explosion::factory: the shared strip at EXPLOSION_FPS
ExplosionFactory_sprite == AnimatedSprite_with_fps(EXPLOSIONS_TOTAL, EXPLOSION_FPS * 1000)

\* a factory that puts the explosion's corner where its center belongs
at_center_corner(c) ==
    [ sprite      |-> ExplosionFactory_sprite,
      rect        |-> Rect(c[1], c[2], EXPLOSION_SIDE * PX, EXPLOSION_SIDE * PX),
      alive_since |-> 0 ]

\* a factory whose template is the animation of the oldest live explosion
at_center_sharedCursor(c) ==
    [ sprite      |-> IF explosions = << >> THEN ExplosionFactory_sprite
                      ELSE explosions[1].sprite,
      rect        |-> center_at(with_size(EXPLOSION_SIDE * PX, EXPLOSION_SIDE * PX), c),
      alive_since |-> 0 ]

\* ExplosionFactory::at_center
at_center(c) ==
    [ sprite      |-> ExplosionFactory_sprite,
      rect        |-> center_at(with_size(EXPLOSION_SIDE * PX, EXPLOSION_SIDE * PX), c),
      alive_since |-> 0 ]

\* an explosion that lasts one second
Explosion_update_oneSecond(self, dt_ms) ==
    LET aged == [self EXCEPT !.alive_since = @ + dt_ms,
                             !.sprite = add_time(@, dt_ms * 1000)]
    IN  IF aged.alive_since >= 1000 THEN OptNone ELSE Some(aged)

\* alive_since >= EXPLOSION_DURATION, with EXPLOSION_DURATION = 1/FPS * TOTAL seconds
Explosion_update(self, dt_ms) ==
    LET aged == [self EXCEPT !.alive_since = @ + dt_ms,
                             !.sprite = add_time(@, dt_ms * 1000)]
    IN  IF aged.alive_since * EXPLOSION_FPS >= EXPLOSIONS_TOTAL * 1000
        THEN OptNone ELSE Some(aged)

---------------------------------------------------------------------------
(* views::shared : the scrolling backgrounds *)

BgSet_new ==
    [ back   |-> [pos |-> 0, vel |-> 20],
      middle |-> [pos |-> 0, vel |-> 40],
      front  |-> [pos |-> 0, vel |-> 80] ]

Background_update(self, elapsed_ms) ==
    LET pos == self.pos + self.vel * elapsed_ms
    IN  [self EXCEPT !.pos = IF pos > BgWidth * PX THEN pos - BgWidth * PX ELSE pos]

BgSet_update(self, elapsed_ms) ==
    [ back   |-> Background_update(self.back, elapsed_ms),
      middle |-> Background_update(self.middle, elapsed_ms),
      front  |-> Background_update(self.front, elapsed_ms) ]

---------------------------------------------------------------------------
(* views::game : GameView::update *)

\* into_iter().filter_map(|x| x.update(..)).collect()
RECURSIVE UpdateBullets(_, _)
UpdateBullets(bs, dt_ms) ==
    IF bs = << >> THEN << >>
    ELSE Bullet_update(Head(bs), dt_ms) \o UpdateBullets(Tail(bs), dt_ms)

RECURSIVE UpdateAsteroids(_, _)
UpdateAsteroids(as, dt_ms) ==
    IF as = << >> THEN << >>
    ELSE Asteroid_update(Head(as), dt_ms) \o UpdateAsteroids(Tail(as), dt_ms)

RECURSIVE UpdateExplosions(_, _)
UpdateExplosions(es, dt_ms) ==
    IF es = << >> THEN << >>
    ELSE Explosion_update(Head(es), dt_ms) \o UpdateExplosions(Tail(es), dt_ms)

\* the inner loop `for bullet in &mut transition_bullets` for one asteroid:
\* the bullets after it
HitBullets(asteroid, tb) ==
    [ i \in DOMAIN tb |->
        IF overlaps(asteroid.rect, Bullet_rect(tb[i].value))
        THEN [tb[i] EXCEPT !.alive = FALSE]
        ELSE tb[i] ]

\* ... and whether it left the asteroid alive
SurvivesBullets(asteroid, tb) ==
    \A i \in DOMAIN tb : ~overlaps(asteroid.rect, Bullet_rect(tb[i].value))

\* a player test by containment instead of overlap
HitsPlayer_contains(asteroid, player_rect) == contains(asteroid.rect, player_rect)

\* `asteroid.rect().overlaps(game.player.rect)`
HitsPlayer(asteroid, player_rect) == overlaps(asteroid.rect, player_rect)

\* a pass in which only an asteroid that a bullet hit leaves an explosion
RECURSIVE CollideAll_bulletBlasts(_, _, _)
CollideAll_bulletBlasts(as, player_rect, st) ==
    IF as = << >> THEN st
    ELSE LET asteroid == Head(as)
             hitsPlayer == HitsPlayer(asteroid, player_rect)
             unhit == SurvivesBullets(asteroid, st.transition_bullets)
         IN  CollideAll_bulletBlasts(Tail(as), player_rect,
                [ transition_bullets |-> HitBullets(asteroid, st.transition_bullets),
                  player_alive |-> st.player_alive /\ ~hitsPlayer,
                  explosions   |-> IF unhit THEN st.explosions
                                   ELSE Append(st.explosions, at_center(center(asteroid.rect))),
                  asteroids    |-> IF unhit /\ ~hitsPlayer THEN Append(st.asteroids, asteroid)
                                   ELSE st.asteroids ])

\* a pass that puts each new explosion in front of the others
RECURSIVE CollideAll_blastsFirst(_, _, _)
CollideAll_blastsFirst(as, player_rect, st) ==
    IF as = << >> THEN st
    ELSE LET asteroid == Head(as)
             hitsPlayer == HitsPlayer(asteroid, player_rect)
             asteroid_alive == SurvivesBullets(asteroid, st.transition_bullets) /\ ~hitsPlayer
         IN  CollideAll_blastsFirst(Tail(as), player_rect,
                [ transition_bullets |-> HitBullets(asteroid, st.transition_bullets),
                  player_alive |-> st.player_alive /\ ~hitsPlayer,
                  explosions   |-> IF asteroid_alive THEN st.explosions
                                   ELSE << at_center(center(asteroid.rect)) >> \o st.explosions,
                  asteroids    |-> IF asteroid_alive THEN Append(st.asteroids, asteroid)
                                   ELSE st.asteroids ])

\* The filter_map closure over the asteroids, in order.  st carries the
\* captured state: transition_bullets, player_alive, game.explosions and the
\* asteroids collected so far.
RECURSIVE CollideAll(_, _, _)
CollideAll(as, player_rect, st) ==
    IF as = << >> THEN st
    ELSE LET asteroid == Head(as)
             hitsPlayer == HitsPlayer(asteroid, player_rect)
             asteroid_alive == SurvivesBullets(asteroid, st.transition_bullets) /\ ~hitsPlayer
         IN  CollideAll(Tail(as), player_rect,
                [ transition_bullets |-> HitBullets(asteroid, st.transition_bullets),
                  player_alive |-> st.player_alive /\ ~hitsPlayer,
                  explosions   |-> IF asteroid_alive THEN st.explosions
                                   ELSE Append(st.explosions, at_center(center(asteroid.rect))),
                  asteroids    |-> IF asteroid_alive THEN Append(st.asteroids, asteroid)
                                   ELSE st.asteroids ])

RECURSIVE RetainAlive(_)
RetainAlive(tb) ==
    IF tb = << >> THEN << >>
    ELSE as_option(Head(tb)) \o RetainAlive(Tail(tb))

\* the whole collision pass of GameView::update
Collision(bs, as, es, player_rect) ==
    LET st == CollideAll(as, player_rect,
                [ transition_bullets |-> [i \in DOMAIN bs |-> [alive |-> TRUE, value |-> bs[i]]],
                  player_alive |-> TRUE,
                  explosions   |-> es,
                  asteroids    |-> << >> ])
    IN  [ bullets |-> RetainAlive(st.transition_bullets),
          asteroids |-> st.asteroids,
          explosions |-> st.explosions,
          player_alive |-> st.player_alive ]

\* a fire control that also fires on the pressed edge of a cannon key
FireControl_onSelect(bs, p, ev) ==
    IF \E k \in {"key_space", "key_1", "key_2", "key_3"} : ev.now.key[k] = SomeTrue
    THEN bs \o Player_spawn_bullets(p) ELSE bs

\* a fire control whose new bullets have already flown for a frame of 17 ms
FireControl_advanced(bs, p, ev) ==
    IF ev.now.key["key_space"] = SomeTrue
    THEN bs \o UpdateBullets(Player_spawn_bullets(p), 17) ELSE bs

\* the fire control: append the spawned bullets on a key_space pressed edge
FireControl(bs, p, ev) ==
    IF ev.now.key["key_space"] = SomeTrue THEN bs \o Player_spawn_bullets(p) ELSE bs

\* the stochastic spawn; rnd.spawn is (rand::random::<usize>() % 100 == 0)
RandomSpawn(as, rnd) ==
    IF rnd.spawn THEN Append(as, AsteroidFactory_random(rnd.r_fps, rnd.r_y, rnd.r_vel)) ELSE as

NoEntities == [bullets |-> << >>, asteroids |-> << >>, explosions |-> << >>]

\* a Game view that ends when the player dies
FrameResult_quitsOnDeath(player_alive) == IF player_alive THEN "Render" ELSE "Quit"

\* the end of GameView::update: `if !player_alive { println!(..) }` only
\* reports, and the frame returns ViewAction::Render(self) either way
FrameResult(player_alive) == "Render"

\* an update that looks at the quit request after the frame's work
GameView_update_quitLast(g, ev, elapsed_ms, rnd) ==
    LET p == Player_update(g.player, ev, elapsed_ms) IN
    IF ~IsSome(p)
    THEN [ action |-> "Panic", view |-> g, player_alive |-> TRUE,
           mid |-> NoEntities, kept |-> NoEntities ]
    ELSE LET bs == UpdateBullets(g.bullets, elapsed_ms)
             as == UpdateAsteroids(g.asteroids, elapsed_ms)
             es == UpdateExplosions(g.explosions, elapsed_ms)
             c  == Collision(bs, as, es, Unwrap(p).rect)
         IN  [ action |-> IF ev.now.quit THEN "Quit" ELSE FrameResult(c.player_alive),
               view |-> [ player     |-> Unwrap(p),
                          bullets    |-> FireControl(c.bullets, Unwrap(p), ev),
                          asteroids  |-> RandomSpawn(c.asteroids, rnd),
                          explosions |-> c.explosions,
                          bg         |-> BgSet_update(g.bg, elapsed_ms) ],
               player_alive |-> c.player_alive,
               mid  |-> [bullets |-> bs, asteroids |-> as, explosions |-> es],
               kept |-> [bullets |-> c.bullets, asteroids |-> c.asteroids,
                         explosions |-> c.explosions] ]

\* GameView::update.  g is the view, ev the input snapshot, rnd the random
\* draws of the frame.  The result carries the returned ViewAction, the view
\* after the call and two records for the properties: `mid`, the collections
\* after the per-entity updates, and `kept`, the collections after the
\* collision pass.
GameView_update(g, ev, elapsed_ms, rnd) ==
    IF ev.now.quit
    THEN [ action |-> "Quit", view |-> g, player_alive |-> TRUE,
           mid |-> NoEntities, kept |-> NoEntities ]
    ELSE LET p == Player_update(g.player, ev, elapsed_ms) IN
         IF ~IsSome(p)
         THEN [ action |-> "Panic", view |-> g, player_alive |-> TRUE,
                mid |-> NoEntities, kept |-> NoEntities ]
         ELSE LET bs == UpdateBullets(g.bullets, elapsed_ms)
                  as == UpdateAsteroids(g.asteroids, elapsed_ms)
                  es == UpdateExplosions(g.explosions, elapsed_ms)
                  c  == Collision(bs, as, es, Unwrap(p).rect)
              IN  [ action |-> FrameResult(c.player_alive),
                    view |-> [ player     |-> Unwrap(p),
                               bullets    |-> FireControl(c.bullets, Unwrap(p), ev),
                               asteroids  |-> RandomSpawn(c.asteroids, rnd),
                               explosions |-> c.explosions,
                               bg         |-> BgSet_update(g.bg, elapsed_ms) ],
                    player_alive |-> c.player_alive,
                    mid  |-> [bullets |-> bs, asteroids |-> as, explosions |-> es],
                    kept |-> [bullets |-> c.bullets, asteroids |-> c.asteroids,
                              explosions |-> c.explosions] ]

GameView_with_backgrounds(b) ==
    [ player |-> Player_new, bullets |-> << >>, asteroids |-> << >>,
      explosions |-> << >>, bg |-> b ]

---------------------------------------------------------------------------
(* views::main_menu : MainMenuView *)

\* MainMenuView::with_backgrounds: the ordered actions and what their func returns
Actions == << [label |-> "New Game", func |-> "ChangeView"],
              [label |-> "Quit",     func |-> "Quit"] >>

MainMenuView_with_backgrounds(b) == [ selected |-> 0, bg |-> b ]

\* a menu whose selection stops at the first action
SelectUp_clamps(sel) ==
    LET s == sel - 1 IN IF s < 0 THEN 0 ELSE s

\* the `key_up` block of MainMenuView::render
SelectUp(sel) ==
    LET s == sel - 1 IN IF s < 0 THEN Len(Actions) - 1 ELSE s

\* a menu whose selection goes past the last action
SelectDown_noWrap(sel) == sel + 1

\* the `key_down` block of MainMenuView::render
SelectDown(sel) ==
    LET s == sel + 1 IN IF s >= Len(Actions) THEN 0 ELSE s

\* a menu that always triggers its first action
ActionAt_first(sel) == Actions[1]

\* `selected` is 0-based in the program; Actions is a 1-based sequence here
ActionAt(sel) == Actions[sel + 1]

\* MainMenuView's per-frame method.  Result: the ViewAction and the view after
\* the call; a "ChangeView" carries a Game view built with a clone of bg.
MainMenuView_update(m, ev, elapsed_ms) ==
    IF ev.now.quit \/ ev.now.key["key_escape"] = SomeTrue
    THEN [ action |-> "Quit", view |-> m ]
    ELSE IF ev.now.key["key_space"] = SomeTrue \/ ev.now.key["key_enter"] = SomeTrue
    THEN [ action |-> ActionAt(m.selected).func, view |-> m ]
    ELSE LET s1 == IF ev.now.key["key_up"] = SomeTrue THEN SelectUp(m.selected) ELSE m.selected
             s2 == IF ev.now.key["key_down"] = SomeTrue THEN SelectDown(s1) ELSE s1
         IN  [ action |-> "None",
               view   |-> [ selected |-> s2, bg |-> BgSet_update(m.bg, elapsed_ms) ] ]

---------------------------------------------------------------------------
(* The state shared by the specifications *)

\* the Game view held in the variables
TheGame == [ player |-> player, bullets |-> bullets, asteroids |-> asteroids,
             explosions |-> explosions, bg |-> bg ]

\* the MainMenu view held in the variables
TheMenu == [ selected |-> selected, bg |-> bg ]

\* history of the last call of a view's per-frame method
NoUpdateYet ==
    [ kind |-> "none", id |-> 0, action |-> "Init", installed |-> 0, elapsed |-> 0,
      player_alive |-> TRUE, mid |-> NoEntities, kept |-> NoEntities,
      selected_before |-> 0, spawned |-> FALSE ]

\* the draws of one Game frame: no spawn, or a spawn with its three f64 draws
RandomDraws ==
    { [spawn |-> FALSE, r_fps |-> 0, r_y |-> 0, r_vel |-> 0],
      [spawn |-> TRUE,  r_fps |-> 0, r_y |-> 0, r_vel |-> 999],
      [spawn |-> TRUE,  r_fps |-> 999, r_y |-> 999, r_vel |-> 0] }

\* the draws the model lets a frame take: the collection stays within MaxAsteroids
DrawsFor(as) == { r \in RandomDraws : r.spawn => Len(as) < MaxAsteroids }

\* a pressed edge of space appends two bullets: the collection stays within MaxBullets
FireFits(ev) == ev.now.key["key_space"] = SomeTrue => Len(bullets) + 2 <= MaxBullets

\* a driver that never takes over the returned view
Install_keepsOld(cur, action, returned) == cur

\* the driver's `current_view = view` (1-13) / `current_view = new_view` (1-11):
\* the view an update returned replaces the active one; Quit returns none
Install(cur, action, returned) ==
    IF action \in {"Quit", "Panic"} THEN cur ELSE returned

\* The step of the driver that calls the active view's per-frame method with
\* the snapshot `events` and the elapsed time dt, and takes over the view it
\* returns.  next[a] is the driver's next position for the returned action a.
ViewActions == {"None", "Render", "ChangeView", "Quit", "Panic"}

\* the Game frame whose update returned r: the view's fields and the records
\* of the frame take r's values
GameFrame(r, rnd, next) ==
    /\ selected' = selected
    /\ player' = r.view.player
    /\ bullets' = r.view.bullets
    /\ asteroids' = r.view.asteroids
    /\ explosions' = r.view.explosions
    /\ bg' = r.view.bg
    /\ current_view' = Install(current_view, r.action, current_view)
    /\ last' = [ NoUpdateYet EXCEPT
                   !.kind = "game", !.id = current_view.id, !.action = r.action,
                   !.installed = current_view.id, !.elapsed = dt,
                   !.player_alive = r.player_alive, !.mid = r.mid, !.kept = r.kept,
                   !.spawned = rnd.spawn /\ r.action = "Render" ]
    /\ hist' = [hist EXCEPT
                   !.frames = @ + 1,
                   !.deaths = @ + (IF r.player_alive THEN 0 ELSE 1),
                   !.stale = @ + (IF current_view.id \in hist.discarded THEN 1 ELSE 0)]
    /\ pc' = next[r.action]

CallView(next) ==
    IF current_view.kind = "menu"
    THEN LET r == MainMenuView_update(TheMenu, events, dt)
             g == GameView_with_backgrounds(bg)
             changed == r.action = "ChangeView"
             newview == IF changed THEN [kind |-> "game", id |-> hist.next_id]
                        ELSE current_view
         IN  /\ selected' = r.view.selected
             /\ player' = IF changed THEN g.player ELSE player
             /\ bullets' = IF changed THEN g.bullets ELSE bullets
             /\ asteroids' = IF changed THEN g.asteroids ELSE asteroids
             /\ explosions' = IF changed THEN g.explosions ELSE explosions
             /\ bg' = r.view.bg
             /\ current_view' = Install(current_view, r.action, newview)
             /\ last' = [ NoUpdateYet EXCEPT
                            !.kind = "menu", !.id = current_view.id, !.action = r.action,
                            !.installed = newview.id, !.elapsed = dt,
                            !.selected_before = selected ]
             /\ hist' = [hist EXCEPT
                            !.frames = @ + 1,
                            !.stale = @ + (IF current_view.id \in hist.discarded THEN 1 ELSE 0),
                            !.next_id = IF changed THEN @ + 1 ELSE @,
                            !.discarded = IF changed THEN @ \cup {current_view.id} ELSE @]
             /\ pc' = next[r.action]
    ELSE \E rnd \in DrawsFor(asteroids) :
            GameFrame(GameView_update(TheGame, events, dt, rnd), rnd, next)

\* the specifications of the views and the driver apply no function on its
\* own and hold every value exactly
NoProbe == [kind |-> "none", mant |-> 0]

\* the state of the driver before its first iteration
InitDriverState ==
    /\ timer = 0 /\ now = 0 /\ before = 0 /\ last_second = 0 /\ fps = 0 /\ dt = 0
    /\ events = Events_new
    /\ bg = BgSet_new
    /\ last = NoUpdateYet
    /\ calls = << >>
    /\ hist = [frames |-> 0, next_id |-> 2, discarded |-> {}, stale |-> 0, deaths |-> 0]

InitCommon ==
    /\ InitDriverState
    /\ probe = NoProbe

\* the embedding caller's init closure builds a MainMenuView (main.rs)
InitMenuView ==
    /\ current_view = [kind |-> "menu", id |-> 1]
    /\ selected = MainMenuView_with_backgrounds(bg).selected
    /\ player = Player_new
    /\ bullets = << >> /\ asteroids = << >> /\ explosions = << >>

\* ... or a Game view
InitGameView ==
    /\ current_view = [kind |-> "game", id |-> 1]
    /\ selected = 0
    /\ player = GameView_with_backgrounds(bg).player
    /\ bullets = GameView_with_backgrounds(bg).bullets
    /\ asteroids = GameView_with_backgrounds(bg).asteroids
    /\ explosions = GameView_with_backgrounds(bg).explosions

---------------------------------------------------------------------------
(* SpecGame: the frames of the views as the driver produces them, without
   the driver's clock: a pump of the input snapshot, then the active view's
   per-frame method with the frame's elapsed time. *)

\* elapsed times of a frame in SpecGame, milliseconds
ElapsedChoices == { 250 }

\* pending events of one pump while the Game view is active
GameEventLists ==
    { << >>,
      << KeyDown("key_space") >>,
      << KeyDown("key_2"), KeyDown("key_space") >>,
      << KeyDown("key_3") >>,
      << KeyUp("key_space"), KeyDown("key_1") >>,
      << KeyDown("key_left") >>,
      << QuitEv >> }

\* pending events of one pump while the MainMenu view is active
MenuEventLists ==
    { << >>,
      << KeyDown("key_up") >>,
      << KeyDown("key_down") >>,
      << KeyUp("key_up"), KeyUp("key_down") >>,
      << KeyDown("key_up"), KeyDown("key_down") >>,
      << KeyDown("key_space") >>,
      << KeyDown("key_down"), KeyDown("key_enter") >>,
      << KeyDown("key_escape") >>,
      << QuitEv >> }

EventListsFor(kind) == IF kind = "menu" THEN MenuEventLists ELSE GameEventLists

InitFrames ==
    /\ InitCommon
    /\ pc = "pump"
    /\ driver = "v13"
    /\ (InitMenuView \/ InitGameView)

FPump ==
    /\ pc = "pump"
    /\ hist.frames < MaxFrames
    /\ \E evs \in EventListsFor(current_view.kind), e \in ElapsedChoices :
          /\ FireFits(Events_pump(events, evs))
          /\ events' = Events_pump(events, evs)
          /\ dt' = e
    /\ pc' = "update"
    /\ UNCHANGED << probe, driver, timer, now, before, last_second, fps, current_view,
                    selected, gameVars, last, calls, hist >>

\* a driver that updates the view it was handed in the frame of the hand-over
FrameNext_updatesAtOnce(action) ==
    CASE action \in {"None", "Render"} -> "pump"
      [] action = "ChangeView" -> "update"
      [] action = "Quit" -> "done"
      [] OTHER -> "panic"

FrameNext(action) ==
    CASE action \in {"None", "Render", "ChangeView"} -> "pump"
      [] action = "Quit" -> "done"
      [] OTHER -> "panic"

FUpdate ==
    /\ pc = "update"
    /\ CallView([a \in ViewActions |-> FrameNext(a)])
    /\ UNCHANGED << probe, driverVars, events, calls >>

NextGame == FPump \/ FUpdate

SpecGame == InitFrames /\ [][NextGame]_vars

---------------------------------------------------------------------------
(* Properties of the Game view's frame (SpecGame) *)

\* the last per-frame call was a GameView::update that ran to its end
GameFrameDone == last.kind = "game" /\ last.action = "Render"

\* ... and the snapshot it read is still in `events`
GameFrameSeen == GameFrameDone /\ pc # "update"

SameCenter(r1, r2) ==
    /\ 2 * r1.x + r1.w = 2 * r2.x + r2.w
    /\ 2 * r1.y + r1.h = 2 * r2.y + r2.h

RemoveAt(s, i) == SubSeq(s, 1, i - 1) \o SubSeq(s, i + 1, Len(s))

\* the case of C1: after the per-entity updates one asteroid and one bullet, overlapping
OneOnOne ==
    /\ GameFrameDone
    /\ Len(last.mid.asteroids) = 1
    /\ Len(last.mid.bullets) = 1
    /\ overlaps(last.mid.asteroids[1].rect, Bullet_rect(last.mid.bullets[1]))

\* C1: in a frame where, after the per-entity updates, exactly one asteroid
\* and one bullet exist and their rectangles overlap, both are removed (the
\* collision pass retains no bullet and no asteroid; what the collections hold
\* at the end of the frame was appended after the pass) and exactly one
\* explosion is appended, centered on the asteroid's center, with age 0.
C1_CollisionRemovesBoth ==
    OneOnOne =>
        /\ last.kept.bullets = << >>
        /\ last.kept.asteroids = << >>
        /\ Len(asteroids) = (IF last.spawned THEN 1 ELSE 0)
        /\ \A i \in DOMAIN asteroids : asteroids[i].rect.x = OutputW
        /\ Len(bullets) \in {0, 2}
        /\ Len(explosions) = Len(last.mid.explosions) + 1
        /\ SubSeq(explosions, 1, Len(explosions) - 1) = last.mid.explosions
        /\ SameCenter(explosions[Len(explosions)].rect, last.mid.asteroids[1].rect)
        /\ explosions[Len(explosions)].alive_since = 0

\* such a frame: the bullet's twin was consumed by another asteroid a frame earlier
C1_Witness ==
    /\ OneOnOne
    /\ last.kept.asteroids = << >>
    /\ last.kept.bullets = << >>
    /\ Len(explosions) = Len(last.mid.explosions) + 1

\* the asteroids that overlap the player after the per-entity updates
HittingPlayer == { i \in DOMAIN last.mid.asteroids :
                      overlaps(last.mid.asteroids[i].rect, player.rect) }

\* the case of C2: no bullets, and an asteroid overlaps the player
PlayerHit ==
    /\ GameFrameDone
    /\ last.mid.bullets = << >>
    /\ Cardinality(HittingPlayer) = 1

\* C2: in a frame where the player's rectangle overlaps an asteroid's
\* rectangle and there are no bullets, that asteroid is removed (the others
\* are retained), exactly one explosion is spawned, and the frame's
\* player-alive flag is false.
C2_PlayerCollision ==
    PlayerHit =>
        LET i == CHOOSE j \in HittingPlayer : TRUE IN
        /\ last.kept.asteroids = RemoveAt(last.mid.asteroids, i)
        /\ SubSeq(asteroids, 1, Len(last.kept.asteroids)) = last.kept.asteroids
        /\ Len(explosions) = Len(last.mid.explosions) + 1
        /\ SameCenter(explosions[Len(explosions)].rect, last.mid.asteroids[i].rect)
        /\ last.player_alive = FALSE

C2_Witness == PlayerHit /\ ~last.player_alive

\* the bullets that overlap asteroid i after the per-entity updates
BulletsOn(i) == { k \in DOMAIN last.mid.bullets :
                     overlaps(last.mid.asteroids[i].rect, Bullet_rect(last.mid.bullets[k])) }

\* the case of C3: two asteroids, each overlapping the same single bullet and
\* nothing else
TwoOnOneBullet ==
    /\ GameFrameDone
    /\ Len(last.mid.asteroids) = 2
    /\ Cardinality(BulletsOn(1)) = 1
    /\ BulletsOn(2) = BulletsOn(1)
    /\ HittingPlayer = {}

\* C3 (as claimed): a bullet that killed one asteroid is consumed and cannot
\* kill a second one: of two asteroids that both overlap the same single
\* bullet, and nothing else, at most one is removed in the frame.
C3_BulletKillsAtMostOne ==
    TwoOnOneBullet => Len(last.kept.asteroids) >= 1

\* C4: a Game view starts with zero bullets and zero asteroids; on a frame
\* with a pressed edge of space exactly two bullets are appended, at
\* (ship.x+30, ship.y+6) and (ship.x+30, ship.y+PLAYER_H-10) of the ship's
\* rectangle after the frame's movement, both of the variant of the cannon
\* selected at that moment, a selection by a key_1/2/3 edge of the same frame
\* included.
C4_FireAppendsTwo ==
    /\ (current_view.kind = "game" /\ last.kind # "game") =>
            (bullets = << >> /\ asteroids = << >>)
    /\ (GameFrameSeen /\ events.now.key["key_space"] = SomeTrue) =>
        LET n  == Len(last.kept.bullets)
            ev == events.now.key
        IN  /\ Len(bullets) = n + 2
            /\ SubSeq(bullets, 1, n) = last.kept.bullets
            /\ Bullet_rect(bullets[n + 1]) =
                  Rect(player.rect.x + 30 * PX, player.rect.y + 6 * PX,
                       BULLET_W * PX, BULLET_H * PX)
            /\ Bullet_rect(bullets[n + 2]) =
                  Rect(player.rect.x + 30 * PX, player.rect.y + (PLAYER_H - 10) * PX,
                       BULLET_W * PX, BULLET_H * PX)
            /\ bullets[n + 1].kind = player.cannon.type
            /\ bullets[n + 2].kind = player.cannon.type
            /\ (ev["key_3"] = SomeTrue => player.cannon.type = "DivergentBullet")
            /\ (ev["key_2"] = SomeTrue /\ ev["key_3"] # SomeTrue
                    => player.cannon.type = "SineBullet")
            /\ (ev["key_1"] = SomeTrue /\ ev["key_2"] # SomeTrue /\ ev["key_3"] # SomeTrue
                    => player.cannon.type = "RectBullet")

\* a frame that selected the sine cannon and fired with it
C4_Witness ==
    /\ GameFrameSeen
    /\ events.now.key["key_space"] = SomeTrue
    /\ events.now.key["key_2"] = SomeTrue
    /\ Len(bullets) = 2
    /\ bullets[1].kind = "SineBullet"


---------------------------------------------------------------------------
(* Spec: phi::spawn, the driver loop with its clock.  `driver` selects the
   variant of the loop: "v13" (update, then render and present of the
   returned view) or "v11" (one per-frame method; None presents, ChangeView
   installs).  timer is the millisecond tick counter the loop reads. *)

\* last tick the model lets the clock reach
MaxTicks == 1100

\* accepted frames the model lets the loop run
MaxLoopFrames == 3

\* ticks that pass between two reads of the clock at the top of the loop:
\* none, a frame longer than the interval, a stall of more than a second
WorkTimes == { 0, 17, 1001 }

\* ticks timer.delay sleeps beyond the request
Oversleep == { 0, 1 }

\* `let interval = 1_000 / 60;` in integer arithmetic
interval == 1000 \div 60

\* a loop that never waits
TooSoon_never(d) == FALSE

\* `if dt < interval`
TooSoon(d) == d < interval

\* pending events of one pump of the driver loop
LoopEventLists(kind) ==
    IF kind = "menu"
    THEN { << >>, << KeyDown("key_space") >>, << QuitEv >> }
    ELSE { << >>, << QuitEv >> }

\* a loop that goes on after Quit
Dispatch13_continues(action) ==
    CASE action = "Panic" -> "panic"
      [] OTHER -> "render"

\* the match on the ViewAction of the 1-13 loop: Render(view) renders and
\* presents, Quit breaks
Dispatch13(action) ==
    CASE action = "Quit" -> "done"
      [] action = "Panic" -> "panic"
      [] OTHER -> "render"

\* the match on the ViewAction of the 1-11 loop: None presents, Quit breaks,
\* ChangeView installs and goes to the next iteration
Dispatch11(action) ==
    CASE action = "Quit" -> "done"
      [] action = "Panic" -> "panic"
      [] action = "ChangeView" -> "top"
      [] OTHER -> "present"

LoopNext(action) == IF driver = "v13" THEN Dispatch13(action) ELSE Dispatch11(action)

Call(op, arg) == [op |-> op, arg |-> arg]

Init ==
    /\ InitCommon
    /\ pc = "top"
    /\ driver \in {"v11", "v13"}
    /\ (InitMenuView \/ InitGameView)

\* top of the loop: read the clock, take the delta, wait or accept the frame
LoopTop ==
    /\ pc = "top"
    /\ hist.frames < MaxLoopFrames
    /\ \E d \in WorkTimes :
          LET t == timer + d
              delta == t - before
          IN  /\ t <= MaxTicks
              /\ timer' = t
              /\ now' = t
              /\ dt' = delta
              /\ IF TooSoon(delta)
                 THEN /\ pc' = "delay"
                      /\ UNCHANGED << before, fps, last_second >>
                 ELSE /\ pc' = "pump"
                      /\ before' = t
                      /\ IF t - last_second > 1000
                         THEN last_second' = t /\ fps' = 0
                         ELSE last_second' = last_second /\ fps' = fps + 1
    /\ calls' = << >>
    /\ UNCHANGED << probe, driver, events, current_view, selected, gameVars, last, hist >>

\* timer.delay(interval - dt); continue
Delay ==
    /\ pc = "delay"
    /\ \E o \in Oversleep : timer' = timer + (interval - dt) + o
    /\ calls' = Append(calls, Call("delay", interval - dt))
    /\ pc' = "top"
    /\ UNCHANGED << probe, driver, now, before, last_second, fps, dt, events, current_view,
                    selected, gameVars, last, hist >>

\* context.events.pump
Pump ==
    /\ pc = "pump"
    /\ \E evs \in LoopEventLists(current_view.kind) :
          /\ FireFits(Events_pump(events, evs))
          /\ events' = Events_pump(events, evs)
    /\ calls' = Append(calls, Call("pump", 0))
    /\ pc' = "update"
    /\ UNCHANGED << probe, driverVars, current_view, selected, gameVars, last, hist >>

\* the active view's per-frame method and the match on what it returns
Update ==
    /\ pc = "update"
    /\ CallView([a \in ViewActions |-> LoopNext(a)])
    /\ calls' = Append(calls, Call("update", current_view.id))
    /\ UNCHANGED << probe, driverVars, events >>

\* a loop that presents the frame buffer before it renders the view
Render_presentFirst ==
    /\ pc = "render"
    /\ calls' = calls \o << Call("present", 0), Call("render", current_view.id) >>
    /\ pc' = "top"
    /\ UNCHANGED << probe, driverVars, events, current_view, selected, gameVars, last, hist >>

\* 1-13: current_view.render(&mut context); context.renderer.present()
Render ==
    /\ pc = "render"
    /\ calls' = calls \o << Call("render", current_view.id), Call("present", 0) >>
    /\ pc' = "top"
    /\ UNCHANGED << probe, driverVars, events, current_view, selected, gameVars, last, hist >>

\* 1-11: context.renderer.present()
Present ==
    /\ pc = "present"
    /\ calls' = Append(calls, Call("present", 0))
    /\ pc' = "top"
    /\ UNCHANGED << probe, driverVars, events, current_view, selected, gameVars, last, hist >>

Next == LoopTop \/ Delay \/ Pump \/ Update \/ Render \/ Present

Spec == Init /\ [][Next]_vars


---------------------------------------------------------------------------
(* Properties of the driver loop (Spec) *)

\* the calls of the running iteration with operation op
CallsOf(op) == { i \in DOMAIN calls : calls[i].op = op }

\* C5: Quit is terminal for the driver loop: from a state in which the active
\* view's update has returned Quit the loop has stopped, and no step pumps
\* input, updates or renders a view, presents a frame, or does anything else.
C5_QuitTerminal ==
    [][ last.action = "Quit" =>
            /\ pc = "done" /\ pc' = "done"
            /\ calls' = calls
            /\ hist' = hist
            /\ events' = events
            /\ timer' = timer ]_vars

\* the loop stopped by a Quit of its second or a later frame
C5_Witness ==
    /\ pc = "done"
    /\ last.action = "Quit"
    /\ hist.frames >= 2
    /\ calls[Len(calls)] = Call("update", current_view.id)

\* C6: when the active view's update returns a view, the driver installs
\* exactly that view as the active view before anything else happens, every
\* render of the iteration and every later update is dispatched to the active
\* view, and no update is ever dispatched to a view that was replaced.
C6_ViewTransition ==
    /\ (last.kind # "none" /\ last.action \notin {"Quit", "Panic"}) =>
            current_view.id = last.installed
    /\ \A i \in CallsOf("render") : calls[i].arg = current_view.id
    /\ \A i \in CallsOf("update") : calls[i].arg = last.id
    /\ current_view.id \notin hist.discarded
    /\ hist.stale = 0

\* the Game view that replaced the menu has been updated and rendered
C6_Witness ==
    /\ driver = "v13"
    /\ hist.discarded = {1}
    /\ last.kind = "game"
    /\ last.id = 2
    /\ current_view.id = 2
    /\ CallsOf("render") # {}

\* C7: an iteration whose delta since the last accepted frame is below the
\* interval sleeps for (interval - delta) and goes back to the top of the loop
\* without a pump, an update or a render, and leaves the last-accepted
\* timestamp and the views as they were; an iteration makes at most one
\* update; an update is only called with a delta of at least the interval.
C7_FramePacing ==
    [][ /\ (pc = "top" /\ dt' < interval) =>
              /\ pc' = "delay"
              /\ calls' = << >>
              /\ UNCHANGED << before, events, current_view, selected, gameVars, last, hist >>
        /\ (pc = "delay") =>
              /\ pc' = "top"
              /\ calls' = << Call("delay", interval - dt) >>
              /\ timer' >= timer + (interval - dt)
              /\ UNCHANGED << before, events, current_view, selected, gameVars, last, hist >>
        /\ Cardinality({ i \in DOMAIN calls' : calls'[i].op = "update" }) <= 1
        /\ (hist'.frames # hist.frames) =>
              /\ pc = "update"
              /\ dt >= interval
              /\ last'.elapsed = dt
              /\ before = now ]_vars

\* back at the top of the loop after a sleep that followed an accepted frame
C7_Witness ==
    /\ pc = "top"
    /\ hist.frames >= 1
    /\ Len(calls) = 1
    /\ calls[1].op = "delay"
    /\ calls[1].arg > 0
    /\ before < timer

\* C8 (as claimed): two consecutive accepted frames are never closer together
\* than 1/60 of a second: the delta of a second or later update, in
\* milliseconds, is at least 1000/60.
C8_SixtyPerSecond ==
    (hist.frames >= 2 /\ last.action \in {"None", "Render", "ChangeView", "Quit"}) =>
        last.elapsed * 60 >= 1000

---------------------------------------------------------------------------
(* Properties of the MainMenu view's frame (SpecGame) *)

\* the last per-frame call was the menu's, and its snapshot is still in `events`
MenuFrameSeen == last.kind = "menu" /\ pc # "update"

Pressed(k) == events.now.key[k] = SomeTrue

QuitAsked == events.now.quit \/ Pressed("key_escape")

Confirmed == Pressed("key_space") \/ Pressed("key_enter")

\* the number of actions of the menu
N == Len(Actions)

\* C9: on a MainMenu frame that navigates (no quit, escape or confirm), an up
\* edge at index 0 yields N-1 and elsewhere one less, a down edge at index
\* N-1 yields 0 and elsewhere one more; without an edge the index stays;
\* with both edges the up step is followed by the down step.
C9_SelectionWraps ==
    (MenuFrameSeen /\ ~QuitAsked /\ ~Confirmed) =>
        LET s0 == last.selected_before
            up == IF s0 = 0 THEN N - 1 ELSE s0 - 1
            mid == IF Pressed("key_up") THEN up ELSE s0
            down == IF mid = N - 1 THEN 0 ELSE mid + 1
        IN  /\ last.action = "None"
            /\ current_view = [kind |-> "menu", id |-> last.id]
            /\ selected \in 0 .. N - 1
            /\ (Pressed("key_up") /\ ~Pressed("key_down")) => selected = up
            /\ (~Pressed("key_up") /\ Pressed("key_down")) =>
                   selected = (IF s0 = N - 1 THEN 0 ELSE s0 + 1)
            /\ (~Pressed("key_up") /\ ~Pressed("key_down")) => selected = s0
            /\ selected = (IF Pressed("key_down") THEN down ELSE mid)

\* an up edge alone at index 0 has wrapped to the last action
C9_Witness ==
    /\ MenuFrameSeen /\ ~QuitAsked /\ ~Confirmed
    /\ Pressed("key_up") /\ ~Pressed("key_down")
    /\ last.selected_before = 0
    /\ selected = N - 1

\* C10: on a MainMenu frame with a confirm edge and no quit/escape the result
\* is the result of the action at the selected index, whatever else is
\* pressed: at index 0 (New Game) a change to a newly constructed Game view,
\* at index 1 (Quit) termination; the index itself does not move.
C10_ConfirmTriggersSelected ==
    (MenuFrameSeen /\ ~QuitAsked /\ Confirmed) =>
        /\ last.selected_before \in {0, 1}
        /\ selected = last.selected_before
        /\ last.selected_before = 0 =>
              /\ Actions[1].label = "New Game"
              /\ last.action = "ChangeView"
              /\ current_view.kind = "game"
              /\ current_view.id = last.installed
              /\ current_view.id # last.id
              /\ player = Player_new
              /\ bullets = << >> /\ asteroids = << >> /\ explosions = << >>
        /\ last.selected_before = 1 =>
              /\ Actions[2].label = "Quit"
              /\ last.action = "Quit"
              /\ pc = "done"

\* Quit confirmed at index 1
C10_Witness ==
    /\ MenuFrameSeen /\ ~QuitAsked /\ Confirmed
    /\ last.selected_before = 1
    /\ last.action = "Quit"


---------------------------------------------------------------------------
(* Player death (SpecGame) *)

\* the player died in a frame before the last one
DiedEarlier == hist.deaths > (IF last.player_alive THEN 0 ELSE 1)

\* C11: the player's death is reported and nothing else.  Every update of the
\* Game view that is not a quit, the frames in which an asteroid overlaps the
\* player and the frames after them included, returns Render with the same
\* view and leaves the player as Player::update alone made it: the size of
\* the rectangle never changes, without a held direction the rectangle stays,
\* without a cannon key the cannon stays; a fire edge appends the two bullets
\* of the selected cannon at the ship's mounts, no edge appends none.
C11_DeathIsInert ==
    [][ (pc = "update" /\ current_view.kind = "game" /\ ~events.now.quit) =>
          LET dead == ~last'.player_alive
              ev   == events.now.key
              n    == Len(last'.kept.bullets)
          IN  /\ dead = (\E i \in DOMAIN last'.mid.asteroids :
                            overlaps(last'.mid.asteroids[i].rect, player'.rect))
              /\ last'.action = "Render"
              /\ current_view' = current_view
              /\ pc' = "pump"
              /\ player' = Unwrap(Player_update(player, events, dt))
              /\ player'.rect.w = PLAYER_W * PX /\ player'.rect.h = PLAYER_H * PX
              /\ (\A k \in {"key_up", "key_down", "key_left", "key_right"} : ~events.held[k])
                    => player'.rect = player.rect
              /\ (\A k \in {"key_1", "key_2", "key_3"} : ev[k] # SomeTrue)
                    => player'.cannon = player.cannon
              /\ IF ev["key_space"] = SomeTrue
                 THEN /\ Len(bullets') = n + 2
                      /\ \A i \in {n + 1, n + 2} :
                            /\ bullets'[i].kind = player'.cannon.type
                            /\ Bullet_rect(bullets'[i]).x = player'.rect.x + 30 * PX
                 ELSE bullets' = last'.kept.bullets ]_vars

\* after an earlier death the ship selected the sine cannon and fired it
C11_Witness ==
    /\ GameFrameSeen
    /\ DiedEarlier
    /\ events.now.key["key_2"] = SomeTrue
    /\ events.now.key["key_space"] = SomeTrue
    /\ bullets[Len(bullets)].kind = "SineBullet"


---------------------------------------------------------------------------
(* The Rectangle functions on their own.  The inputs are drawn at the      *)
(* start from the values of a small floating-point format and each action  *)
(* applies one function of phi/data.rs (or the collision pass that uses    *)
(* it) and records what it returned.                                       *)

\* significant bits of the small floating-point format
MantissaBits == 3
\* largest magnitude of a drawn coordinate
MaxCoord == 16

\* the values of the format within the coordinate range
Floats == { n \in (0 - MaxCoord)..MaxCoord : RoundTo(MantissaBits, n) = n }
\* non-negative sizes
Sizes == { n \in Floats : n >= 0 }

\* the first argument: any abscissa and width, a few ordinates and heights
RectsA ==
    { Rect(x, yh[1], w, yh[2]) :
        x \in Floats, w \in Sizes,
        yh \in { <<0, 4>>, <<0 - 1, 2>>, <<3, 2>>, <<1, 0>>, <<0, 5>> } }

\* the second argument (the parent of move_inside)
RectsB ==
    { Rect(x, 0, w, 4) : x \in {0 - 3, 0, 2}, w \in {5, 12, 14} }

\* a rectangle away from every drawn one
FarRect == Rect(4 * MaxCoord, 0, 1, 1)

RectOps == {"move_inside", "contains", "overlaps", "collision", "region"}

InitRect ==
    /\ InitDriverState
    /\ InitGameView
    /\ driver = "v13"
    /\ pc = "call"
    /\ probe \in { [kind |-> "rect", mant |-> MantissaBits, op |-> o,
                    a |-> a, b |-> b, out |-> << >>] :
                   o \in RectOps, a \in RectsA, b \in RectsB }

Returns(out) ==
    /\ pc' = "returned"
    /\ probe' = [probe EXCEPT !.out = out]
    /\ UNCHANGED << driver, timer, now, before, last_second, fps, dt, events,
                    current_view, selected, player, bullets, asteroids,
                    explosions, bg, last, calls, hist >>

\* probe.a.move_inside(probe.b), and the same on its result
CallMoveInside ==
    /\ pc = "call" /\ probe.kind = "rect" /\ probe.op = "move_inside"
    /\ LET m == move_inside(probe.a, probe.b) IN
       Returns([ moved |-> m,
                 again |-> IF IsSome(m) THEN move_inside(Unwrap(m), probe.b)
                           ELSE OptNone ])

\* probe.a.contains(probe.a) and probe.b.contains(probe.a)
CallContains ==
    /\ pc = "call" /\ probe.kind = "rect" /\ probe.op = "contains"
    /\ Returns([ aa |-> contains(probe.a, probe.a),
                 ba |-> contains(probe.b, probe.a) ])

\* probe.a.overlaps(probe.b) and probe.b.overlaps(probe.a)
CallOverlaps ==
    /\ pc = "call" /\ probe.kind = "rect" /\ probe.op = "overlaps"
    /\ Returns([ ab |-> overlaps(probe.a, probe.b),
                 ba |-> overlaps(probe.b, probe.a) ])

\* an asteroid whose bounding box is r
AsteroidAt(r) == [AsteroidFactory_random(0, 0, 0) EXCEPT !.rect = r]

\* the collision pass with one asteroid at probe.a: once against one bullet
\* whose bounding box is probe.b (the player elsewhere) and once against a
\* player at probe.b (no bullets)
CallCollision ==
    /\ pc = "call" /\ probe.kind = "rect" /\ probe.op = "collision"
    /\ Returns([ bullet |-> Collision(<< [kind |-> "RectBullet", rect |-> probe.b] >>,
                                       << AsteroidAt(probe.a) >>, << >>, FarRect),
                 player |-> Collision(<< >>, << AsteroidAt(probe.a) >>, << >>, probe.b) ])

\* sprite.region(probe.a) of the sprite that holds the region probe.b of the
\* spritesheet; `self` is the sprite after the call
CallRegion ==
    /\ pc = "call" /\ probe.kind = "rect" /\ probe.op = "region"
    /\ LET sprite == [tex |-> "spritesheet", src |-> probe.b]
       IN  Returns([region |-> Sprite_region(sprite, probe.a), self |-> sprite])

NextRect ==
    CallMoveInside \/ CallContains \/ CallOverlaps \/ CallCollision \/ CallRegion

SpecRect == InitRect /\ [][NextRect]_vars

Returned(op) == pc = "returned" /\ probe.kind = "rect" /\ probe.op = op

\* C12: for rectangles R and P of non-negative sizes, move_inside(R, P) is
\* none when R is wider or taller than P, and otherwise a rectangle that P
\* contains and that has R's width and height.
C12_MoveInsideContained ==
    Returned("move_inside") =>
        IF probe.a.w > probe.b.w \/ probe.a.h > probe.b.h
        THEN probe.out.moved = OptNone
        ELSE /\ IsSome(probe.out.moved)
             /\ contains(probe.b, Unwrap(probe.out.moved))
             /\ Unwrap(probe.out.moved).w = probe.a.w
             /\ Unwrap(probe.out.moved).h = probe.a.h


\* C13: when P contains R, move_inside(R, P) returns R itself, and so
\* move_inside is idempotent: applying it to its own result with the same
\* parent returns that result.
C13_MoveInsideFixesContained ==
    Returned("move_inside") =>
        /\ contains(probe.b, probe.a) => probe.out.moved = Some(probe.a)
        /\ IsSome(probe.out.moved) => probe.out.again = probe.out.moved


\* C14: overlaps is symmetric: A.overlaps(B) and B.overlaps(A) agree.
C14_OverlapsSymmetric ==
    Returned("overlaps") => (probe.out.ab = probe.out.ba)

\* two different rectangles that overlap, seen from both sides
C14_Witness ==
    /\ Returned("overlaps")
    /\ probe.a # probe.b
    /\ probe.out.ab /\ probe.out.ba

\* the right and the bottom edge of a rectangle, as the code computes them
RightOf(r) == f64_add(r.x, r.w)
BottomOf(r) == f64_add(r.y, r.h)

\* a and b share an edge line: one ends where the other begins
Touching(a, b) ==
    \/ RightOf(a) = b.x  \/ RightOf(b) = a.x
    \/ BottomOf(a) = b.y \/ BottomOf(b) = a.y

C16_ContainsReflexive ==
    (Returned("contains") /\ probe.a.w >= 0 /\ probe.a.h >= 0) => probe.out.aa

\* a rectangle whose right edge is not a value of the format (the sum is
\* rounded) is found to contain itself
C16_Witness ==
    /\ Returned("contains")
    /\ probe.a.w > 0
    /\ RightOf(probe.a) # probe.a.x + probe.a.w
    /\ probe.out.aa


---------------------------------------------------------------------------
(* One bullet in flight: it is fired, then updated frame after frame until *)
(* it is deleted.  Times in ms, positions in mpx, exact.                   *)

\* total flight time that is followed, ms
MaxFlight == 1350

\* output widths, mpx: below, at and just above the distance flown in 1 s
BulletWidths == { 200 * PX, 240 * PX, 241 * PX, 300 * PX }
\* where the bullet is fired, mpx
BulletStarts == { 0, 107 * PX }
\* frame times, ms
BulletDts == { 17, 250, 500 }

InitBullet ==
    /\ InitDriverState
    /\ InitGameView
    /\ driver = "v13"
    /\ pc = "flight"
    /\ probe \in
         { [ kind |-> "bullet", mant |-> 0, width |-> w, x0 |-> x,
             bullet |-> Some([kind |-> "RectBullet",
                              rect |-> Rect(x, 50 * PX, BULLET_W * PX, BULLET_H * PX)]),
             prev |-> OptNone, dt |-> 0, t |-> 0 ] :
           w \in BulletWidths, x \in BulletStarts }
         \cup
         \* the sine and the divergent bullets of a ship in the top left and
         \* of a ship in the bottom left corner, in a window 400 px wide
         { [ kind |-> "bullet", mant |-> 0, width |-> 400 * PX, x0 |-> 30 * PX,
             bullet |-> Some(spawn_bullets(c, 30 * PX, y + 6 * PX,
                                           y + (PLAYER_H - 10) * PX)[k]),
             prev |-> OptNone, dt |-> 0, t |-> 0 ] :
           c \in {CannonSine, CannonDivergent},
           y \in {0, OutputH - PLAYER_H * PX}, k \in 1..2 }

\* one frame: bullet.update(phi, dt) on a bullet that is still there
BulletUpdate ==
    /\ pc = "flight" /\ probe.kind = "bullet"
    /\ IsSome(probe.bullet)
    /\ \E d \in BulletDts :
        /\ probe.t + d <= MaxFlight
        /\ probe' = [probe EXCEPT
                        !.bullet =
                            LET b == Unwrap(probe.bullet) IN
                            CASE b.kind = "RectBullet" ->
                                    RectBullet_advance(b, probe.width, d)
                              [] b.kind = "SineBullet" ->
                                    SineBullet_update(b, probe.width, d)
                              [] b.kind = "DivergentBullet" ->
                                    DivergentBullet_update(b, probe.width, OutputH, d),
                        !.prev = probe.bullet,
                        !.dt = d,
                        !.t = @ + d]
    /\ UNCHANGED << pc, driver, timer, now, before, last_second, fps, dt, events,
                    current_view, selected, player, bullets, asteroids,
                    explosions, bg, last, calls, hist >>

\* total scrolling time that is followed, ms
MaxScroll == 9100

\* the three layers of a fresh background set, before their first update
InitScroll ==
    /\ InitDriverState
    /\ InitGameView
    /\ driver = "v13"
    /\ pc = "scroll"
    /\ probe = [kind |-> "bg", mant |-> 0, dt |-> 0, t |-> 0]

\* one frame of the backgrounds: back, middle and front are advanced by the
\* frame's time, ms: a quarter of a second, a stall of one second, of eight
BgScroll ==
    /\ pc = "scroll" /\ probe.kind = "bg"
    /\ \E e \in { 250, 1001, 8000 } :
        /\ probe.t + e <= MaxScroll
        /\ bg' = BgSet_update(bg, e)
        /\ probe' = [probe EXCEPT !.dt = e, !.t = @ + e]
    /\ UNCHANGED << pc, driver, timer, now, before, last_second, fps, dt, events,
                    current_view, selected, player, bullets, asteroids,
                    explosions, last, calls, hist >>

\* frames followed on one ship
MaxShipFrames == 3

\* a new player's ship in a window of w x h pixels: narrower than the ship
\* needs, just too narrow, just wide enough, the model's size; lower than the
\* ship, as high as the ship, the model's height
InitShip ==
    /\ InitDriverState
    /\ InitGameView
    /\ driver = "v13"
    /\ pc = "ship"
    /\ probe \in { [ kind |-> "ship", mant |-> 0, w |-> w, h |-> h,
                     out |-> "none", n |-> 0, held |-> {} ] :
                   w \in {40, 61, 62, ScreenW}, h \in {38, 39, ScreenH} }

\* one frame of the ship: player.update(phi, elapsed) with one direction, a
\* diagonal, two opposite directions or nothing held, after 17 ms, 250 ms or
\* a stall of 1.5 s; the panic of the unwrap ends the run
ShipUpdate ==
    /\ pc = "ship" /\ probe.kind = "ship"
    /\ probe.out # "panic" /\ probe.n < MaxShipFrames
    /\ \E held \in { {}, {"key_left"}, {"key_right"}, {"key_up"}, {"key_down"},
                      {"key_left", "key_up"}, {"key_right", "key_down"},
                      {"key_left", "key_right"} },
          e \in { 17, 250, 1500 } :
        LET ev == [Events_new EXCEPT !.held = [k \in Keys |-> k \in held]]
            r == Player_update_in(player, ev, e, probe.w * PX, probe.h * PX)
        IN  /\ player' = IF IsSome(r) THEN Unwrap(r) ELSE player
            /\ probe' = [probe EXCEPT !.out = IF IsSome(r) THEN "ok" ELSE "panic",
                                      !.n = @ + 1, !.held = held]
    /\ UNCHANGED << pc, driver, timer, now, before, last_second, fps, dt, events,
                    current_view, selected, bullets, asteroids,
                    explosions, bg, last, calls, hist >>

NextBullet == BulletUpdate \/ BgScroll \/ ShipUpdate

SpecBullet == (InitBullet \/ InitScroll \/ InitShip) /\ [][NextBullet]_vars

\* C17: every update advances a RectBullet's x by exactly 240 px/s times dt;
\* the update reports the bullet gone exactly when the advanced x is greater
\* than the output width (x equal to the width is alive); a bullet fired at
\* x = 0 is alive through the updates of its first second when the width
\* exceeds 240 px.
C17_RectBulletFlight ==
    ( /\ probe.kind = "bullet" /\ IsSome(probe.prev)
      /\ Unwrap(probe.prev).kind = "RectBullet" ) =>
        LET x1 == Unwrap(probe.prev).rect.x + 240 * probe.dt IN
        /\ IsSome(probe.bullet) = ~(x1 > probe.width)
        /\ IsSome(probe.bullet) =>
                Unwrap(probe.bullet) = [Unwrap(probe.prev) EXCEPT !.rect.x = x1]
        /\ (probe.x0 = 0 /\ probe.width > 240 * PX /\ probe.t <= 1000) =>
                IsSome(probe.bullet)

\* fired at x = 0 on a 240 px wide output, the bullet is on the right border
\* after one second of updates, and alive
C17_Witness ==
    /\ probe.kind = "bullet" /\ probe.x0 = 0
    /\ probe.t = 1000 /\ probe.dt = 250
    /\ IsSome(probe.bullet)
    /\ Unwrap(probe.bullet).rect.x = probe.width


---------------------------------------------------------------------------
(* One AnimatedSprite and the calls made on it.  Two families of sprites   *)
(* are followed: sprites whose times are exact microseconds, built from a  *)
(* number of frames per second, and sprites whose times are the values of  *)
(* a small floating-point format, so that the rounding of the f64          *)
(* operations of add_time and render shows.                                *)

\* significant bits of the small format of sprite times
SpriteBits == 4
\* largest number of frames of a sprite
MaxSpriteFrames == 4
\* number of calls followed on one sprite
MaxSpriteOps == 3

\* frame delays of the sprites handed to AnimatedSprite::new
SpriteDelays(mant) == IF mant = 0 THEN {100 * 1000} ELSE {3, 7}
\* arguments of add_time
SpriteDts(mant) ==
    IF mant = 0 THEN {17 * 1000, 250 * 1000, 0 - 300 * 1000} ELSE {14, 5, 0 - 16}
\* arguments of with_fps and set_fps, 1/1000 frame per second
FpsChoices == {0, 3 * 1000, 10 * 1000, 0 - 5 * 1000}

InitSprite ==
    /\ InitDriverState
    /\ InitGameView
    /\ driver = "v13"
    /\ pc = "sprite"
    /\ probe \in { [ kind |-> "sprite", mant |-> m,
                     sprite |-> AnimatedSprite_new(n, d),
                     prev |-> AnimatedSprite_new(n, d),
                     op |-> "new", arg |-> d, n |-> 0 ] :
                   m \in {0, SpriteBits}, n \in 1..MaxSpriteFrames,
                   d \in SpriteDelays(0) \cup SpriteDelays(SpriteBits) }
    /\ probe.sprite.frame_delay \in SpriteDelays(probe.mant)

\* the call `op(arg)` returned `result`
SpriteCall(op, arg, result) ==
    /\ probe' = [probe EXCEPT !.sprite = result, !.prev = probe.sprite,
                              !.op = op, !.arg = arg, !.n = @ + 1]
    /\ UNCHANGED << pc, driver, timer, now, before, last_second, fps, dt, events,
                    current_view, selected, player, bullets, asteroids,
                    explosions, bg, last, calls, hist >>

SpriteLive ==
    /\ pc = "sprite" /\ probe.kind = "sprite"
    /\ ~IsPanic(probe.sprite)
    /\ probe.n < MaxSpriteOps

\* sprite.add_time(d)
SpriteAddTime ==
    /\ SpriteLive
    /\ \E d \in SpriteDts(probe.mant) :
            SpriteCall("add_time", d, add_time(probe.sprite, d))

\* sprite.add_time(frames as f64 * frame_delay): one full period
SpriteAddPeriod ==
    /\ SpriteLive
    /\ LET d == f64_mul(probe.sprite.frames, probe.sprite.frame_delay)
       IN  SpriteCall("add_period", d, add_time(probe.sprite, d))

\* sprite.set_fps(f)
SpriteSetFps ==
    /\ SpriteLive
    /\ \E f \in FpsChoices :
            SpriteCall("set_fps", f, set_fps(probe.sprite, f))

\* AnimatedSprite::with_fps(sprites, f) with the same frames
SpriteWithFps ==
    /\ SpriteLive
    /\ \E f \in FpsChoices :
            SpriteCall("with_fps", f, AnimatedSprite_with_fps(probe.sprite.frames, f))

\* pumps followed on one Events record
MaxPumps == 3

\* a fresh Events record; `fed` and `trail` are the pending events and the
\* snapshot `now` of every pump so far, `prev` the record before the last pump
InitPump ==
    /\ InitDriverState
    /\ InitGameView
    /\ driver = "v13"
    /\ pc = "pump"
    /\ probe = [ kind |-> "events", mant |-> 0, prev |-> Events_new,
                 fed |-> << >>, trail |-> << >> ]

\* events.pump() with the events that are pending at the top of one frame
PumpEvents ==
    /\ pc = "pump" /\ probe.kind = "events"
    /\ Len(probe.trail) < MaxPumps
    /\ \E evs \in { << >>, << QuitEv >>,
                     << KeyDown("key_space") >>, << KeyUp("key_space") >>,
                     << KeyDown("key_space"), KeyDown("key_space") >>,
                     << KeyDown("key_space"), KeyUp("key_space") >>,
                     << KeyUp("key_space"), KeyDown("key_space") >>,
                     << KeyDown("key_1") >>,
                     << KeyDown("key_space"), QuitEv >> } :
        /\ events' = Events_pump(events, evs)
        /\ probe' = [probe EXCEPT !.prev = events,
                                  !.fed = Append(@, evs),
                                  !.trail = Append(@, Events_pump(events, evs).now)]
    /\ UNCHANGED << pc, driver, timer, now, before, last_second, fps, dt,
                    current_view, selected, player, bullets, asteroids,
                    explosions, bg, last, calls, hist >>

NextSprite ==
    SpriteAddTime \/ SpriteAddPeriod \/ SpriteSetFps \/ SpriteWithFps \/ PumpEvents

SpecSprite == (InitSprite \/ InitPump) /\ [][NextSprite]_vars

\* a sprite with at least one frame and a positive frame_delay
Playable(s) == ~IsPanic(s) /\ s.frames >= 1 /\ s.frame_delay > 0

\* C18: the frame index is floor(elapsed / frame_delay) mod frame_count, and
\* from any non-negative elapsed time add_time(frame_count * frame_delay)
\* selects the same frame index as before.
C18_FramePeriodic ==
    /\ (probe.kind = "sprite" /\ Playable(probe.sprite)
            /\ probe.sprite.current_time >= 0) =>
         current_frame(probe.sprite) =
            (probe.sprite.current_time \div probe.sprite.frame_delay) % probe.sprite.frames
    /\ (probe.kind = "sprite" /\ probe.op = "add_period" /\ Playable(probe.prev)
            /\ probe.prev.current_time >= 0) =>
         current_frame(probe.sprite) = current_frame(probe.prev)

\* C19: add_time on a sprite with at least one frame and a positive
\* frame_delay leaves the cursor >= 0, and when the sum is negative the
\* cursor is (frame_count - 1) * frame_delay and the last frame is selected.
C19_CursorNeverNegative ==
    (probe.kind = "sprite" /\ probe.op \in {"add_time", "add_period"}
        /\ Playable(probe.prev)) =>
        /\ probe.sprite.current_time >= 0
        /\ f64_add(probe.prev.current_time, probe.arg) < 0 =>
            /\ probe.sprite.current_time =
                    f64_mul(probe.prev.frames - 1, probe.prev.frame_delay)
            /\ current_frame(probe.sprite) = probe.prev.frames - 1


\* C20: with_fps(0) and set_fps(0) panic and yield no sprite; for every
\* non-zero fps the call returns a sprite whose frame_delay is 1 / fps
\* (set_fps changes nothing else, with_fps starts at time 0).
C20_ZeroFpsPanics ==
    (probe.kind = "sprite" /\ probe.op \in {"set_fps", "with_fps"}) =>
        IF probe.arg = 0
        THEN IsPanic(probe.sprite)
        ELSE /\ ~IsPanic(probe.sprite)
             /\ probe.sprite.frame_delay = RoundTo(probe.mant, (1000 * 1000 * 1000) \div probe.arg)
             /\ probe.mant = 0 =>
                    LET e == probe.sprite.frame_delay * probe.arg - 1000 * 1000 * 1000
                        a == IF probe.arg < 0 THEN 0 - probe.arg ELSE probe.arg
                    IN  e < a /\ 0 - e < a
             /\ probe.sprite.frames = probe.prev.frames
             /\ probe.sprite.current_time =
                    (IF probe.op = "set_fps" THEN probe.prev.current_time ELSE 0)

\* with_fps(0) was called on a sprite that had advanced, and panicked
C20_Witness ==
    /\ probe.kind = "sprite" /\ probe.op = "with_fps" /\ probe.arg = 0
    /\ probe.prev.current_time > 0
    /\ IsPanic(probe.sprite)


\* C21: region(rect) succeeds exactly when rect, translated by the origin of
\* the sprite's region, lies within that region; a failure returns no sprite,
\* a success returns a sprite of the same texture holding the translated
\* rectangle, and the sprite itself is the same after the call.
C21_RegionChecked ==
    Returned("region") =>
        LET src == probe.b
            t == Rect(f64_add(probe.a.x, src.x), f64_add(probe.a.y, src.y),
                      probe.a.w, probe.a.h)
            within ==
                /\ src.x <= t.x /\ t.x <= RightOf(src)
                /\ src.x <= RightOf(t) /\ RightOf(t) <= RightOf(src)
                /\ src.y <= t.y /\ t.y <= BottomOf(src)
                /\ src.y <= BottomOf(t) /\ BottomOf(t) <= BottomOf(src)
        IN  /\ IsSome(probe.out.region) = within
            /\ IsSome(probe.out.region) =>
                    Unwrap(probe.out.region) = [tex |-> "spritesheet", src |-> t]
            /\ probe.out.self = [tex |-> "spritesheet", src |-> src]

\* a region is handed out whose rectangle, taken untranslated, is outside
\* of the sprite's region
C21_Witness ==
    /\ Returned("region")
    /\ IsSome(probe.out.region)
    /\ probe.a.w > 0 /\ probe.a.h > 0
    /\ probe.b.x > 0 /\ probe.a.x < probe.b.x
    /\ Unwrap(probe.out.region).src.x = probe.a.x + probe.b.x


\* C22: after any sequence of advances, whatever the elapsed times, the
\* position of each background layer is within [0, sprite width].
C22_ScrollInRange ==
    probe.kind = "bg" =>
        \A layer \in {"back", "middle", "front"} :
            0 <= bg[layer].pos /\ bg[layer].pos <= BgWidth * PX


\* C23: once a pump has seen a quit event, the quit flag is set in the
\* snapshot of every later pump.
C23_QuitStaysSet ==
    probe.kind = "events" =>
        \A i \in 1..Len(probe.trail) : \A j \in i..Len(probe.trail) :
            probe.trail[i].quit => probe.trail[j].quit

\* the events of the last pump that are about key k
EventsOf(k) ==
    LET evs == probe.fed[Len(probe.fed)]
    IN  SelectSeq(evs, LAMBDA e : e.type \in {"KeyDown", "KeyUp"} /\ e.keycode = k)

\* the last pump saw a key-down of k while k was not held: the key-down is
\* the first event about k and k was up before the pump, or it follows a key-up
PressSeen(k) ==
    \E i \in 1..Len(EventsOf(k)) :
        /\ EventsOf(k)[i].type = "KeyDown"
        /\ IF i = 1 THEN ~probe.prev.held[k] ELSE EventsOf(k)[i - 1].type = "KeyUp"

\* C24: a key's edge is Some(true) only after a pump that saw a key-down of
\* the key while it was not held, and is Some(true) when that key-down is the
\* last event about the key; key-downs of a key that stays held leave the edge
\* None; a pump that sees nothing about the key leaves its edge None, so a key
\* held over several frames has its pressed edge in the first of them only.
C24_EdgesOncePerPress ==
    (probe.kind = "events" /\ probe.trail # << >>) =>
        \A k \in Keys :
            LET edge == events.now.key[k]
                about == EventsOf(k)
            IN  /\ edge = SomeTrue => PressSeen(k)
                /\ (PressSeen(k) /\ about[Len(about)].type = "KeyDown") => edge = SomeTrue
                /\ (probe.prev.held[k] /\ \A i \in 1..Len(about) : about[i].type = "KeyDown")
                        => edge = None
                /\ about = << >> => edge = None
                /\ edge = probe.trail[Len(probe.trail)].key[k]

\* the space key is pressed in the first frame, a second key-down arrives
\* while it is held in the second, nothing in the third: one pressed edge
C24_Witness ==
    /\ probe.kind = "events" /\ Len(probe.trail) = 3
    /\ probe.fed[1] = << KeyDown("key_space") >>
    /\ probe.fed[2] = << KeyDown("key_space"), KeyDown("key_space") >>
    /\ events.held["key_space"]
    /\ probe.trail[1].key["key_space"] = SomeTrue
    /\ probe.trail[2].key["key_space"] = None
    /\ probe.trail[3].key["key_space"] = None


\* C25: a frame with a pressed edge of key_1, key_2 or key_3 and no pressed
\* edge of space sets the player's cannon and nothing else that a frame
\* without the selection would not do: no bullet is appended after the
\* collision pass, the bullets in flight are updated each as its own variant
\* is (kind, position and age as without the selection), and the player is
\* the one of the same frame without the selection, but for the cannon.
C25_SelectOnlySetsCannon ==
    [][ ( /\ pc = "update" /\ current_view.kind = "game" /\ ~events.now.quit
          /\ \E k \in {"key_1", "key_2", "key_3"} : events.now.key[k] = SomeTrue
          /\ events.now.key["key_space"] # SomeTrue ) =>
          LET ev    == events.now.key
              quiet == [events EXCEPT !.now.key["key_1"] = None,
                                      !.now.key["key_2"] = None,
                                      !.now.key["key_3"] = None]
          IN  /\ bullets' = last'.kept.bullets
              /\ Len(bullets') <= Len(bullets)
              /\ last'.mid.bullets = UpdateBullets(bullets, dt)
              /\ \A i \in DOMAIN bullets' : \E j \in DOMAIN bullets :
                    /\ bullets'[i].kind = bullets[j].kind
                    /\ << bullets'[i] >> = Bullet_update(bullets[j], dt)
              /\ player'.cannon.type =
                    IF ev["key_3"] = SomeTrue THEN "DivergentBullet"
                    ELSE IF ev["key_2"] = SomeTrue THEN "SineBullet" ELSE "RectBullet"
              /\ [player' EXCEPT !.cannon = player.cannon] =
                    Unwrap(Player_update(player, quiet, dt))
      ]_vars

\* the divergent cannon was selected, without firing, in a frame with
\* RectBullets in flight
C25_Witness ==
    /\ GameFrameSeen
    /\ events.now.key["key_3"] = SomeTrue
    /\ events.now.key["key_space"] # SomeTrue
    /\ bullets # << >>
    /\ bullets[1].kind = "RectBullet"
    /\ player.cannon.type = "DivergentBullet"


\* C26: the player's update aborts exactly when the movable region, 70% of
\* the output's width by all of its height, is narrower or lower than the
\* ship's rectangle; in a region that is large enough it never aborts and
\* leaves the ship inside the region.
C26_AbortsIffRegionTooSmall ==
    (probe.kind = "ship" /\ probe.n > 0) =>
        /\ (probe.out = "panic") =
              (70 * probe.w < 100 * PLAYER_W \/ probe.h < PLAYER_H)
        /\ probe.out = "ok" =>
              /\ 0 <= player.rect.x
              /\ 100 * (player.rect.x + player.rect.w) <= 70 * probe.w * PX
              /\ 0 <= player.rect.y
              /\ player.rect.y + player.rect.h <= probe.h * PX

\* the update aborted in a window that is wide enough but too low
C26_Witness ==
    /\ probe.kind = "ship" /\ probe.out = "panic"
    /\ probe.w = ScreenW /\ probe.h < PLAYER_H


\* the asteroids that a collision pass removes: those that, after the
\* per-entity updates, overlap a bullet or the player's ship
DeadAsteroids ==
    { i \in DOMAIN last.mid.asteroids :
        \/ \E j \in DOMAIN last.mid.bullets :
              overlaps(last.mid.asteroids[i].rect, Bullet_rect(last.mid.bullets[j]))
        \/ overlaps(last.mid.asteroids[i].rect, player.rect) }

\* the explosions the collision pass added
NewExplosions ==
    SubSeq(last.kept.explosions, Len(last.mid.explosions) + 1, Len(last.kept.explosions))

\* C27: a collision pass adds as many explosions as it removes asteroids, one
\* for each removed asteroid however many bullets overlap it and whether or not
\* the ship overlaps it too, each a fresh explosion centered on its asteroid.
C27_OneExplosionPerAsteroid ==
    GameFrameDone =>
        /\ Len(last.kept.explosions) - Len(last.mid.explosions) = Cardinality(DeadAsteroids)
        /\ Len(last.mid.asteroids) - Len(last.kept.asteroids) = Cardinality(DeadAsteroids)
        /\ \A i \in DeadAsteroids :
              Cardinality({ k \in DOMAIN NewExplosions :
                              SameCenter(NewExplosions[k].rect, last.mid.asteroids[i].rect) })
              = Cardinality({ j \in DeadAsteroids :
                              SameCenter(last.mid.asteroids[j].rect, last.mid.asteroids[i].rect) })
        /\ \A k \in DOMAIN NewExplosions :
              /\ NewExplosions[k].alive_since = 0
              /\ \E i \in DeadAsteroids :
                    SameCenter(NewExplosions[k].rect, last.mid.asteroids[i].rect)

\* one asteroid was removed that two bullets and the ship overlapped, and one
\* explosion was added
C27_Witness ==
    /\ GameFrameDone
    /\ Cardinality(DeadAsteroids) = 1
    /\ Len(NewExplosions) = 1
    /\ \E i \in DeadAsteroids :
          /\ Cardinality({ j \in DOMAIN last.mid.bullets :
                overlaps(last.mid.asteroids[i].rect, Bullet_rect(last.mid.bullets[j])) }) >= 2
          /\ overlaps(last.mid.asteroids[i].rect, player.rect)

\* C28: the explosions that survived their update keep their places, the
\* explosions of a collision pass follow them in the order in which the pass
\* met their asteroids; the surviving asteroids and the surviving bullets are
\* in the order they had before the pass.
C28_OrderKept ==
    GameFrameDone =>
        LET as == last.mid.asteroids
            bs == last.mid.bullets
            dead(a) == \/ \E j \in DOMAIN bs : overlaps(a.rect, Bullet_rect(bs[j]))
                       \/ overlaps(a.rect, player.rect)
            spent(b) == \E i \in DOMAIN as : overlaps(as[i].rect, Bullet_rect(b))
            gone == SelectSeq(as, dead)
        IN  /\ SubSeq(last.kept.explosions, 1, Len(last.mid.explosions)) = last.mid.explosions
            /\ Len(NewExplosions) = Len(gone)
            /\ \A k \in DOMAIN NewExplosions : SameCenter(NewExplosions[k].rect, gone[k].rect)
            /\ last.kept.asteroids = SelectSeq(as, LAMBDA a : ~dead(a))
            /\ last.kept.bullets = SelectSeq(bs, LAMBDA b : ~spent(b))

\* a pass removed two asteroids with different centers while an earlier
\* explosion was still burning
C28_Witness ==
    /\ GameFrameDone
    /\ last.mid.explosions # << >>
    /\ Len(NewExplosions) = 2
    /\ ~SameCenter(NewExplosions[1].rect, NewExplosions[2].rect)


\* C29: the bullets of a fire edge are appended after the bullets' update and
\* after the collision pass: at the end of the firing frame the two new
\* bullets follow the bullets the pass kept, have age 0 and sit at the ship's
\* mounts, and are there even when they overlap an asteroid of that pass.
C29_NewBulletsUntouched ==
    (GameFrameSeen /\ events.now.key["key_space"] = SomeTrue) =>
        LET n == Len(last.kept.bullets)
            mount(k) == player.rect.y + (IF k = 1 THEN 6 * PX ELSE (PLAYER_H - 10) * PX)
        IN  /\ Len(bullets) = n + 2
            /\ SubSeq(bullets, 1, n) = last.kept.bullets
            /\ \A k \in 1..2 :
                  LET b == bullets[n + k] IN
                  IF b.kind = "RectBullet"
                  THEN b.rect = Rect(player.rect.x + 30 * PX, mount(k), BULLET_W * PX, BULLET_H * PX)
                  ELSE /\ b.total_time = 0
                       /\ b.pos_x = player.rect.x + 30 * PX
                       /\ b.origin_y = mount(k)

\* a frame fired bullets that carry an age, and one of them overlaps an
\* asteroid that the same frame's collision pass met
C29_Witness ==
    /\ GameFrameSeen /\ events.now.key["key_space"] = SomeTrue
    /\ Len(bullets) >= 2
    /\ bullets[Len(bullets)].kind # "RectBullet"
    /\ \E i \in DOMAIN last.mid.asteroids : \E k \in {Len(bullets) - 1, Len(bullets)} :
          overlaps(last.mid.asteroids[i].rect, Bullet_rect(bullets[k]))


\* C30: an update deletes a RectBullet or a SineBullet exactly when the x of
\* its advanced rectangle is greater than the output's width, wherever its y
\* is; it deletes a DivergentBullet exactly when the advanced rectangle has
\* x > width, x < 0, y > height or y < 0; a bullet that is kept is the
\* advanced bullet.
C30_CullingByVariant ==
    (probe.kind = "bullet" /\ IsSome(probe.prev)) =>
        LET p == Unwrap(probe.prev)
            moved == IF p.kind = "RectBullet"
                     THEN [p EXCEPT !.rect.x = @ + 240 * probe.dt]
                     ELSE [p EXCEPT !.pos_x = @ + 240 * probe.dt,
                                    !.total_time = @ + probe.dt]
            r == Bullet_rect(moved)
            out == IF p.kind = "DivergentBullet"
                   THEN r.x > probe.width \/ r.x < 0 \/ r.y > OutputH \/ r.y < 0
                   ELSE r.x > probe.width
        IN  /\ IsSome(probe.bullet) = ~out
            /\ IsSome(probe.bullet) => Unwrap(probe.bullet) = moved

\* a DivergentBullet was deleted above the top of the output, within its width
C30_Witness ==
    /\ probe.kind = "bullet" /\ IsSome(probe.prev) /\ ~IsSome(probe.bullet)
    /\ Unwrap(probe.prev).kind = "DivergentBullet"
    /\ Unwrap(probe.prev).pos_x + 240 * probe.dt <= probe.width
    /\ Unwrap(probe.prev).origin_y < 10 * PX


\* C31: the two bullets of one shot of the divergent cannon have the shape
\* parameters (-a, b) at the top mount and (+a, b) at the bottom mount, and
\* at every age they share, the vertical offsets of their rectangles from
\* their own origins are negatives of each other.
C31_DivergentMirrored ==
    \A i \in DOMAIN bullets : \A j \in DOMAIN bullets :
        ( /\ i < j
          /\ bullets[i].kind = "DivergentBullet" /\ bullets[j].kind = "DivergentBullet"
          /\ bullets[i].total_time = bullets[j].total_time ) =>
            /\ bullets[i].a = 0 - CannonDivergent.a
            /\ bullets[j].a = CannonDivergent.a
            /\ bullets[i].b = CannonDivergent.b /\ bullets[j].b = CannonDivergent.b
            /\ bullets[i].origin_y < bullets[j].origin_y
            /\ Bullet_rect(bullets[i]).y - bullets[i].origin_y
                 = 0 - (Bullet_rect(bullets[j]).y - bullets[j].origin_y)

\* both bullets of a divergent shot are in flight, away from their origins
C31_Witness ==
    /\ Len(bullets) >= 2
    /\ bullets[1].kind = "DivergentBullet" /\ bullets[2].kind = "DivergentBullet"
    /\ bullets[1].total_time > 0
    /\ bullets[1].total_time = bullets[2].total_time
    /\ Bullet_rect(bullets[1]).y # bullets[1].origin_y


----------------------------------------------------------------------------
(* SpecLong: one Game view over many frames.  Keys are pressed and asteroids *)
(* are spawned in the first frames only; the frames go on until every       *)
(* entity has had the time to leave.  Exact arithmetic.                     *)

\* frames of the Game view that are followed
MaxLongFrames == 24
\* frames in which keys are pressed and asteroids are spawned
SpawnFrames == 2

InitLong ==
    /\ InitDriverState
    /\ InitGameView
    /\ driver = "v13"
    /\ pc = "pump"
    /\ probe = [kind |-> "long", mant |-> 0]

\* events.pump() and the frame's elapsed time, 265 or 266 ms
LongPump ==
    /\ pc = "pump"
    /\ hist.frames < MaxLongFrames
    /\ \E evs \in { << >>, << KeyDown("key_space") >>, << KeyDown("key_up") >>,
                    << KeyDown("key_2"), KeyDown("key_space") >> } :
          /\ evs # << >> => hist.frames < SpawnFrames
          /\ FireFits(Events_pump(events, evs))
          /\ events' = Events_pump(events, evs)
    /\ dt' \in { 265, 266 }
    /\ pc' = "update"
    /\ UNCHANGED << probe, driver, timer, now, before, last_second, fps, current_view,
                    selected, gameVars, last, calls, hist >>

\* the Game view's update of the frame
LongUpdate ==
    /\ pc = "update"
    /\ \E rnd \in DrawsFor(asteroids) :
          /\ rnd.spawn => hist.frames < SpawnFrames
          /\ GameFrame(GameView_update(TheGame, events, dt, rnd), rnd,
                       [a \in ViewActions |-> FrameNext(a)])
    /\ UNCHANGED << probe, driverVars, events, calls >>

NextLong == LongPump \/ LongUpdate

\* the update of a pumped frame is called and returns to the top of the loop
UpdateReturns == pc = "update" /\ pc' = "pump"

\* The loop goes on: a frame that can be pumped is pumped, and the update that
\* is due is run and returns (no operation of the view loops or blocks).
SpecLong ==
    InitLong /\ [][NextLong]_vars /\ WF_vars(LongPump) /\ WF_pc(UpdateReturns)


\* where an explosion is and how old it is
AgeOf(es) == [i \in DOMAIN es |-> [rect |-> es[i].rect, age |-> es[i].alive_since]]

\* C32: an update of the Game view ages every explosion by the frame's
\* elapsed time and keeps it exactly when its new age is below 17/16 s; the
\* explosions of the frame's collision pass are added with age 0 and are not
\* aged in that frame; every explosion the view holds is younger than 17/16 s.
C32_ExplosionLifetime ==
    [][ (pc = "update" /\ current_view.kind = "game" /\ ~events.now.quit) =>
          LET aged == [i \in DOMAIN explosions |->
                          [rect |-> explosions[i].rect,
                           age  |-> explosions[i].alive_since + dt]]
              n == Len(last'.mid.explosions)
          IN  /\ AgeOf(last'.mid.explosions) =
                    SelectSeq(aged, LAMBDA e : 16 * e.age < 17 * 1000)
              /\ SubSeq(explosions', 1, n) = last'.mid.explosions
              /\ \A k \in (n + 1)..Len(explosions') : explosions'[k].alive_since = 0
              /\ \A k \in DOMAIN explosions' : 16 * explosions'[k].alive_since < 17 * 1000
      ]_vars

\* an explosion is 1062 ms old, half a millisecond short of its end, while a
\* younger one burns
C32_Witness ==
    /\ Len(explosions) = 2
    /\ explosions[1].alive_since = 1062
    /\ explosions[2].alive_since < 1062


\* C33: after every update of the player that completes, whatever directions
\* are held and however long the frame took, the ship's rectangle has its
\* width and height and lies in the movable region:
\* 0 <= x <= 0.7 * width - PLAYER_W and 0 <= y <= height - PLAYER_H.
C33_ShipStaysInRegion ==
    (probe.kind = "ship" /\ probe.out = "ok") =>
        /\ player.rect.w = PLAYER_W * PX /\ player.rect.h = PLAYER_H * PX
        /\ 0 <= player.rect.x
        /\ 10 * player.rect.x <= 7 * probe.w * PX - 10 * PLAYER_W * PX
        /\ 0 <= player.rect.y
        /\ player.rect.y <= (probe.h - PLAYER_H) * PX

\* after a stall with right and down held the ship is in the bottom right
\* corner of the movable region of the model's window
C33_Witness ==
    /\ probe.kind = "ship" /\ probe.out = "ok"
    /\ probe.held = {"key_right", "key_down"}
    /\ probe.w = ScreenW /\ probe.h = ScreenH
    /\ 10 * player.rect.x = 7 * probe.w * PX - 10 * PLAYER_W * PX
    /\ player.rect.y = (probe.h - PLAYER_H) * PX


\* the operations of the running iteration, in the order of the calls
OpsOf(cs) == [i \in DOMAIN cs |-> cs[i].op]

\* C34: an accepted frame of the 1-13 loop is: pump, one update of the active
\* view, then, unless the update returned Quit, one render of the view the
\* update returned followed by present; no render comes before the update and
\* no present without the render before it.  (The 1-11 loop has one per-frame
\* method in the place of update and render: pump, that method once, then
\* present when it returned None.)
C34_FrameOrder ==
    LET ops == OpsOf(calls)
        accepted == ops # << >> /\ ops[1] = "pump"
    IN  /\ driver = "v13" =>
              /\ ops \in { << >>, << "delay" >>, << "pump" >>, << "pump", "update" >>,
                           << "pump", "update", "render", "present" >> }
              /\ (accepted /\ pc = "top") =>
                    /\ Len(ops) = 4
                    /\ last.action \notin {"Quit", "Panic"}
                    /\ calls[2].arg = last.id
                    /\ calls[3].arg = last.installed
                    /\ calls[3].arg = current_view.id
              /\ (accepted /\ pc = "done") => (Len(ops) = 2 /\ last.action = "Quit")
              /\ (accepted /\ pc = "render") => Len(ops) = 2
        /\ driver = "v11" =>
              /\ ops \in { << >>, << "delay" >>, << "pump" >>, << "pump", "update" >>,
                           << "pump", "update", "present" >> }
              /\ Len(ops) = 3 => last.action \in {"None", "Render"}
              /\ (accepted /\ pc = "top" /\ Len(ops) = 2) => last.action = "ChangeView"
              /\ (accepted /\ pc = "done") => (Len(ops) = 2 /\ last.action = "Quit")

\* the frame in which the menu's update returned the Game view: the Game
\* view, not the menu, was rendered and presented
C34_Witness ==
    /\ driver = "v13" /\ pc = "top"
    /\ OpsOf(calls) = << "pump", "update", "render", "present" >>
    /\ calls[2].arg = 1 /\ calls[3].arg = 2
    /\ current_view.kind = "game"


\* the animation cursors of a collection, entity by entity
CursorsOf(es) == [i \in DOMAIN es |-> es[i].sprite]

\* the cursor of an animation that only its owner advanced by dt_ms
OwnAdvance(sprite, dt_ms) == [sprite EXCEPT !.current_time = @ + dt_ms * 1000]

\* C35: the animation cursor belongs to the instance.  In an update of the
\* Game view every asteroid and explosion that stays has its own elapsed time
\* advanced by the frame's time and its own frame delay kept, whatever was
\* spawned, re-timed or removed beside it; an asteroid made in the frame starts
\* from the template's elapsed time 0 with the delay of its own draw, an
\* explosion made in the frame is the template itself (elapsed 0, 1/16 s); and
\* every animation of a kind has the one frame table of its factory.
C35_CursorsPerInstance ==
    [][ (pc = "update" /\ current_view.kind = "game" /\ ~events.now.quit) =>
          LET na == Len(last'.kept.asteroids)
              ne == Len(last'.mid.explosions)
              ownA == [i \in DOMAIN asteroids |-> OwnAdvance(asteroids[i].sprite, dt)]
              ownE == [i \in DOMAIN explosions |-> OwnAdvance(explosions[i].sprite, dt)]
              leftA == { i \in DOMAIN asteroids :
                            asteroids[i].rect.x - ((dt * asteroids[i].vel) \div 1000)
                               > 0 - ASTEROID_SIDE * PX }
              leftE == { i \in DOMAIN explosions :
                            16 * (explosions[i].alive_since + dt) < 17 * 1000 }
          IN  /\ CursorsOf(last'.mid.asteroids) =
                    SelectSeq(ownA, LAMBDA sp : \E i \in leftA : sp = ownA[i])
              /\ \A k \in DOMAIN last'.kept.asteroids :
                    \E i \in DOMAIN last'.mid.asteroids :
                        last'.kept.asteroids[k] = last'.mid.asteroids[i]
              /\ SubSeq(asteroids', 1, na) = last'.kept.asteroids
              /\ \A k \in (na + 1)..Len(asteroids') :
                    /\ asteroids'[k].sprite.current_time = 0
                    /\ asteroids'[k].sprite.frame_delay # AsteroidFactory_sprite.frame_delay
                    /\ 30 * asteroids'[k].sprite.frame_delay >= 1000 * 1000 - 30
                    /\ 10 * asteroids'[k].sprite.frame_delay <= 1000 * 1000
              /\ CursorsOf(last'.mid.explosions) =
                    SelectSeq(ownE, LAMBDA sp : \E i \in leftE : sp = ownE[i])
              /\ SubSeq(explosions', 1, ne) = last'.mid.explosions
              /\ \A k \in (ne + 1)..Len(explosions') :
                    explosions'[k].sprite = ExplosionFactory_sprite
              /\ \A k \in DOMAIN asteroids' :
                    asteroids'[k].sprite.frames = AsteroidFactory_sprite.frames
              /\ \A k \in DOMAIN explosions' :
                    explosions'[k].sprite.frames = ExplosionFactory_sprite.frames
      ]_vars

\* an asteroid and an explosion side by side, each some way into its own
\* animation: the asteroid with the frame delay of its own draw and the longer
\* elapsed time, the explosion with the template's delay
C35_Witness ==
    /\ Len(asteroids) >= 1 /\ Len(explosions) >= 1
    /\ asteroids[1].sprite.frame_delay # AsteroidFactory_sprite.frame_delay
    /\ explosions[1].sprite.frame_delay = ExplosionFactory_sprite.frame_delay
    /\ explosions[1].sprite.current_time > 0
    /\ asteroids[1].sprite.current_time > explosions[1].sprite.current_time


\* C36: the Game view's update looks at the quit request first: in a frame
\* whose snapshot has quit set it returns Quit, and the player, the bullets,
\* the asteroids, the explosions and the backgrounds are what they were before
\* the frame; nothing was updated, culled, collided or spawned.
C36_QuitFirst ==
    [][ (pc = "update" /\ current_view.kind = "game" /\ events.now.quit) =>
          /\ last'.kind = "game" /\ last'.action = "Quit"
          /\ UNCHANGED gameVars
          /\ last'.mid = NoEntities /\ last'.kept = NoEntities
          /\ ~last'.spawned
          /\ pc' = "done"
      ]_vars

\* a Game view with an asteroid on its way and a bullet in flight whose last
\* update returned Quit
C36_Witness ==
    /\ last.kind = "game" /\ last.action = "Quit" /\ events.now.quit
    /\ asteroids # << >> /\ bullets # << >>
    /\ pc = "done"


\* C37: after every pump, for every key: a pressed edge comes with the key
\* held and a released edge with the key not held; the held state is the kind
\* of the last event the pump saw about the key (down: held, up: not held), and
\* a pump that saw no event about the key leaves its held state as it was.
C37_HeldFollowsLastEvent ==
    (probe.kind = "events" /\ probe.trail # << >>) =>
        \A k \in Keys :
            LET edge == events.now.key[k]
                about == EventsOf(k)
            IN  /\ edge = SomeTrue => events.held[k]
                /\ edge = SomeFalse => ~events.held[k]
                /\ about # << >> =>
                      (events.held[k] <=> about[Len(about)].type = "KeyDown")
                /\ about = << >> => events.held[k] = probe.prev.held[k]

\* space goes down in the first frame, the second frame brings nothing and
\* leaves it held, the third brings a key-down of the held key and then its
\* key-up: released edge, key not held
C37_Witness ==
    /\ probe.kind = "events" /\ Len(probe.trail) = 3
    /\ probe.fed[1] = << KeyDown("key_space") >>
    /\ probe.fed[2] = << >>
    /\ probe.fed[3] = << KeyDown("key_space"), KeyUp("key_space") >>
    /\ probe.trail[2].key["key_space"] = None
    /\ probe.prev.held["key_space"]
    /\ events.now.key["key_space"] = SomeFalse
    /\ ~events.held["key_space"]


\* C38: whatever frames the MainMenu view went through, with up, down and
\* confirm edges in any combination, its selected index is a valid index of
\* the action list: 0 <= selected < N.
C38_SelectedInRange ==
    (current_view.kind = "menu" \/ last.kind = "menu") =>
        /\ 0 <= selected /\ selected < N
        /\ last.kind = "menu" => (0 <= last.selected_before /\ last.selected_before < N)

\* the third frame of a menu brings an up and a down edge together with the
\* last action selected: up to the first, down again to the last
C38_Witness ==
    /\ MenuFrameSeen /\ ~QuitAsked /\ ~Confirmed
    /\ Pressed("key_up") /\ Pressed("key_down")
    /\ hist.frames >= 3
    /\ last.selected_before = N - 1
    /\ selected = N - 1


\* C39: the confirm press that starts a game is not a fire edge of the new
\* Game view.  The menu frame that returns the Game view hands over a view
\* without bullets and is followed by a pump, not by an update; that pump
\* resets the edges, so with space still held from the confirm (key-downs of
\* the held key arriving or not) the Game view's first update sees no pressed
\* edge of space; and a Game view without bullets gets bullets only in a frame
\* whose snapshot has a pressed edge of space.
C39_ConfirmIsNotFire ==
    [][ /\ (pc = "update" /\ current_view.kind = "menu" /\ last'.action = "ChangeView") =>
              /\ current_view'.kind = "game"
              /\ bullets' = << >>
              /\ pc' = "pump"
        /\ (pc = "pump" /\ current_view.kind = "game" /\ last.kind = "menu") =>
              /\ last.action = "ChangeView"
              /\ bullets' = << >>
              /\ pc' = "update"
              /\ events.now.key["key_space"] = SomeTrue =>
                    /\ events.held["key_space"]
                    /\ events'.now.key["key_space"] # SomeTrue
        /\ (pc = "update" /\ current_view.kind = "game" /\ bullets = << >>
                /\ bullets' # << >>) =>
              /\ events.now.key["key_space"] = SomeTrue
              /\ events.held["key_space"]
      ]_vars

\* New Game was confirmed with space, the Game view's first update ran with
\* space still held, and the view has no bullet
C39_Witness ==
    /\ current_view = [kind |-> "game", id |-> 2]
    /\ last.kind = "game" /\ last.action = "Render" /\ hist.frames = 2
    /\ events.held["key_space"] /\ ~events.held["key_enter"]
    /\ events.now.key["key_space"] = None
    /\ bullets = << >>


\* the Game view holds no bullet, no asteroid and no explosion
AllGone == bullets = << >> /\ asteroids = << >> /\ explosions = << >>

\* C40: no entity stays in a collection for ever.  With frames that keep
\* coming, each with a positive elapsed time, and a viewport of fixed size,
\* every RectBullet and SineBullet, every asteroid and every explosion leaves
\* its collection: once the spawns and the shots have ceased the three
\* collections become empty and stay empty.
C40_EveryEntityLeaves == <>[]AllGone

\* the slowest asteroid (50 px/s) has crossed the window and is on the last
\* pixels before x <= -ASTEROID_SIDE, seventeen frames or more after it appeared
C40_Witness ==
    /\ probe.kind = "long"
    /\ hist.frames >= 17
    /\ Len(asteroids) = 1
    /\ asteroids[1].vel = 50 * 1000
    /\ asteroids[1].rect.x < 0 - (ASTEROID_SIDE - 20) * PX
    /\ asteroids[1].rect.x > 0 - ASTEROID_SIDE * PX

=============================================================================
